---------------------------- MODULE Spec2Model ----------------------------
(***************************************************************************)
(* A model of the aem RISC-V assembler: the lexer's operand                *)
(* classification (src/src/lexer.rs), the macro / pseudo-instruction       *)
(* expander and the object writer (src/src/asm.rs), the encoder            *)
(* (src/src/codec/enc.rs) and the ISA table (src/src/arch.rs).             *)
(*                                                                         *)
(* A 32-bit word (Rust u32) is the set of the positions of its 1 bits, a   *)
(* subset of 0..31: `|` is set union, `&` is intersection, `<<` moves the  *)
(* positions up and drops what leaves the word, exactly as u32 does.       *)
(* An i32 is a TLA+ integer in -2^31 .. 2^31-1.                            *)
(***************************************************************************)
EXTENDS Integers, Sequences, FiniteSets, TLC

VARIABLES
    pc,            \* Assembler::new: the stage that runs next
    source,        \* Assembler::new: the input text, a sequence of logical lines
    tokens,        \* the token stream (Vec<Token>)
    macros,        \* the macro dictionary drain_macros returns
    outcome,       \* Running, or how the call ended: Ok, an error class and kind, Panic
    object,        \* Object { binary, relocations, symbols }
    enc_mnemonic,  \* Encoder::new: its mnemonic argument
    enc_operands,  \* Encoder::new: its operands argument
    enc_result     \* Encoder::new: its result, NoResult before the call

vars == <<pc, source, tokens, macros, outcome, object,
          enc_mnemonic, enc_operands, enc_result>>

---------------------------------------------------------------------------
(* Bounds of the model *)

\* The longest operand list handed to the encoder.
MaxOperands == 3

\* The largest register index the model's texts name ("x32": REGISTER_REGEX
\* accepts x\d+ with any number of digits).
MaxRegIndex == 32

\* The longest token stream handed to process_binary.
MaxTokens == 3

---------------------------------------------------------------------------
(* u32 arithmetic *)

WordBits == 0..31

\* `v as u32` for an i32 (or a small unsigned value) v: two's complement.
U32(v) ==
    IF v >= 0
    THEN {i \in 0..30 : (v \div (2^i)) % 2 = 1}
    ELSE {31} \cup {i \in 0..30 : (((v + 2147483647) + 1) \div (2^i)) % 2 = 1}

\* w << n on u32: bits shifted out of the word are lost.
Shl(w, n) == {b + n : b \in w} \cap WordBits

\* w >> n on u32.
Shr(w, n) == {b - n : b \in w} \cap WordBits

\* The mask (1 << n) - 1.
LowMask(n) == 0..(n - 1)

\* a | b | ... for a sequence of words.
BitOr(ws) == UNION {ws[i] : i \in DOMAIN ws}

\* The unsigned value of bits lo..hi of w (hi - lo < 31).
RECURSIVE FieldSum(_, _, _)
FieldSum(w, lo, hi) ==
    IF hi < lo THEN 0
    ELSE (IF hi \in w THEN 2^(hi - lo) ELSE 0) + FieldSum(w, lo, hi - 1)

Field(w, hi, lo) == FieldSum(w, lo, hi)

\* u32::to_le_bytes: the least significant byte first.
ToLeBytes(w) == <<Field(w, 7, 0), Field(w, 15, 8), Field(w, 23, 16), Field(w, 31, 24)>>

---------------------------------------------------------------------------
(* src/src/lexer.rs: RValue, Operand, Emittable, Directive, Token *)

Register(bank, index) == [k |-> "Register", bank |-> bank, index |-> index]
Identifier(name)      == [k |-> "Identifier", name |-> name]
Immediate(value)      == [k |-> "Immediate", value |-> value]

OperandRValue(rv)         == [o |-> "RValue", rv |-> rv]
RelocationFn(fn, sym)     == [o |-> "RelocationFn", fn |-> fn, sym |-> sym]
Address(base, offset)     == [o |-> "Address", base |-> base, offset |-> offset]

\* impl TryFrom<Operand> for RValue<i32>: Ok for Operand::RValue only.
IsRValue(op) == op.o = "RValue"
IsRegisterOperand(op)   == IsRValue(op) /\ op.rv.k = "Register"
IsImmediateOperand(op)  == IsRValue(op) /\ op.rv.k = "Immediate"
\* The pattern Ok(Operand::Address(RValue::Register(_, rs1), RValue::Immediate(offset))).
IsRegImmAddress(op) ==
    /\ op.o = "Address"
    /\ op.base.k = "Register"
    /\ op.offset.k = "Immediate"

Instruction(mnemonic, operands) ==
    [t |-> "Instruction", mnemonic |-> mnemonic, operands |-> operands]
Label(name) == [t |-> "Label", name |-> name]
DataArray(kind, values) == [t |-> kind, values |-> values]
StringData(text) == [t |-> "String", text |-> text]
MacroDirective(name, args) == [t |-> "Macro", name |-> name, args |-> args]
Marker(name) == [t |-> "Marker", name |-> name]
Section(name, flags, align) == [t |-> "Section", name |-> name, flags |-> flags, align |-> align]

---------------------------------------------------------------------------
(* src/src/arch.rs: the ISA table *)

\* enum Opcode, each with its discriminant.
Opcode ==
    [Load |-> 3, LoadFp |-> 7, MiscMem |-> 15, OpImm |-> 19, AuiPC |-> 23,
     OpImm32 |-> 27, Store |-> 35, StoreFp |-> 39, Amo |-> 47, Op |-> 51,
     Op32 |-> 59, Lui |-> 55, MAdd |-> 67, MSub |-> 71, NmSub |-> 75,
     NmAdd |-> 79, OpFp |-> 83, OpImm64 |-> 91, Branch |-> 99, Jalr |-> 103,
     Jal |-> 111, System |-> 115, Op64 |-> 123]

\* struct Instruction; an Option<T> field is <<>> (None) or <<v>> (Some(v)).
\* ShiftType is its discriminant (SLL = 0 .. SRAD = 8), FloatFormat likewise.
Ins(opcode, format, isa, funct3, funct5, funct7, funct12, float_format, shift, rs2) ==
    [opcode |-> opcode, format |-> format, isa |-> isa, funct3 |-> funct3,
     funct5 |-> funct5, funct7 |-> funct7, funct12 |-> funct12,
     float_format |-> float_format, shift |-> shift, rs2 |-> rs2]

RV_ISA ==
    "lui" :> Ins("Lui", "UType", "RV32I", <<>>, <<>>, <<>>, <<>>, <<>>, <<>>, <<>>) @@
    "auipc" :> Ins("AuiPC", "UType", "RV32I", <<>>, <<>>, <<>>, <<>>, <<>>, <<>>, <<>>) @@
    "jal" :> Ins("Jal", "UJType", "RV32I", <<>>, <<>>, <<>>, <<>>, <<>>, <<>>, <<>>) @@
    "jalr" :> Ins("Jalr", "IType", "RV32I", <<0>>, <<>>, <<>>, <<>>, <<>>, <<>>, <<>>) @@
    "beq" :> Ins("Branch", "SBType", "RV32I", <<0>>, <<>>, <<>>, <<>>, <<>>, <<>>, <<>>) @@
    "bne" :> Ins("Branch", "SBType", "RV32I", <<1>>, <<>>, <<>>, <<>>, <<>>, <<>>, <<>>) @@
    "blt" :> Ins("Branch", "SBType", "RV32I", <<4>>, <<>>, <<>>, <<>>, <<>>, <<>>, <<>>) @@
    "bge" :> Ins("Branch", "SBType", "RV32I", <<5>>, <<>>, <<>>, <<>>, <<>>, <<>>, <<>>) @@
    "bltu" :> Ins("Branch", "SBType", "RV32I", <<6>>, <<>>, <<>>, <<>>, <<>>, <<>>, <<>>) @@
    "bgeu" :> Ins("Branch", "SBType", "RV32I", <<7>>, <<>>, <<>>, <<>>, <<>>, <<>>, <<>>) @@
    "lb" :> Ins("Load", "IType", "RV32I", <<0>>, <<>>, <<>>, <<>>, <<>>, <<>>, <<>>) @@
    "lh" :> Ins("Load", "IType", "RV32I", <<1>>, <<>>, <<>>, <<>>, <<>>, <<>>, <<>>) @@
    "lw" :> Ins("Load", "IType", "RV32I", <<2>>, <<>>, <<>>, <<>>, <<>>, <<>>, <<>>) @@
    "lbu" :> Ins("Load", "IType", "RV32I", <<4>>, <<>>, <<>>, <<>>, <<>>, <<>>, <<>>) @@
    "lhu" :> Ins("Load", "IType", "RV32I", <<5>>, <<>>, <<>>, <<>>, <<>>, <<>>, <<>>) @@
    "sb" :> Ins("Store", "SType", "RV32I", <<0>>, <<>>, <<>>, <<>>, <<>>, <<>>, <<>>) @@
    "sh" :> Ins("Store", "SType", "RV32I", <<1>>, <<>>, <<>>, <<>>, <<>>, <<>>, <<>>) @@
    "sw" :> Ins("Store", "SType", "RV32I", <<2>>, <<>>, <<>>, <<>>, <<>>, <<>>, <<>>) @@
    "addi" :> Ins("OpImm", "IType", "RV32I", <<0>>, <<>>, <<>>, <<>>, <<>>, <<>>, <<>>) @@
    "slti" :> Ins("OpImm", "IType", "RV32I", <<2>>, <<>>, <<>>, <<>>, <<>>, <<>>, <<>>) @@
    "sltiu" :> Ins("OpImm", "IType", "RV32I", <<3>>, <<>>, <<>>, <<>>, <<>>, <<>>, <<>>) @@
    "xori" :> Ins("OpImm", "IType", "RV32I", <<4>>, <<>>, <<>>, <<>>, <<>>, <<>>, <<>>) @@
    "ori" :> Ins("OpImm", "IType", "RV32I", <<6>>, <<>>, <<>>, <<>>, <<>>, <<>>, <<>>) @@
    "andi" :> Ins("OpImm", "IType", "RV32I", <<7>>, <<>>, <<>>, <<>>, <<>>, <<>>, <<>>) @@
    "slli" :> Ins("OpImm", "IType", "RV32I", <<1>>, <<>>, <<>>, <<>>, <<>>, <<0>>, <<>>) @@
    "srli" :> Ins("OpImm", "IType", "RV32I", <<5>>, <<>>, <<>>, <<>>, <<>>, <<1>>, <<>>) @@
    "srai" :> Ins("OpImm", "IType", "RV32I", <<5>>, <<>>, <<>>, <<>>, <<>>, <<2>>, <<>>) @@
    "add" :> Ins("Op", "RType", "RV32I", <<0>>, <<>>, <<0>>, <<>>, <<>>, <<>>, <<>>) @@
    "sub" :> Ins("Op", "RType", "RV32I", <<0>>, <<>>, <<32>>, <<>>, <<>>, <<>>, <<>>) @@
    "sll" :> Ins("Op", "RType", "RV32I", <<1>>, <<>>, <<0>>, <<>>, <<>>, <<>>, <<>>) @@
    "slt" :> Ins("Op", "RType", "RV32I", <<2>>, <<>>, <<0>>, <<>>, <<>>, <<>>, <<>>) @@
    "sltu" :> Ins("Op", "RType", "RV32I", <<3>>, <<>>, <<0>>, <<>>, <<>>, <<>>, <<>>) @@
    "xor" :> Ins("Op", "RType", "RV32I", <<4>>, <<>>, <<0>>, <<>>, <<>>, <<>>, <<>>) @@
    "srl" :> Ins("Op", "RType", "RV32I", <<5>>, <<>>, <<0>>, <<>>, <<>>, <<>>, <<>>) @@
    "sra" :> Ins("Op", "RType", "RV32I", <<5>>, <<>>, <<32>>, <<>>, <<>>, <<>>, <<>>) @@
    "or" :> Ins("Op", "RType", "RV32I", <<6>>, <<>>, <<0>>, <<>>, <<>>, <<>>, <<>>) @@
    "and" :> Ins("Op", "RType", "RV32I", <<7>>, <<>>, <<0>>, <<>>, <<>>, <<>>, <<>>) @@
    "fence" :> Ins("MiscMem", "IType", "RV32I", <<0>>, <<>>, <<>>, <<>>, <<>>, <<>>, <<>>) @@
    "ecall" :> Ins("System", "IType", "RV32I", <<0>>, <<>>, <<>>, <<0>>, <<>>, <<>>, <<>>) @@
    "ebreak" :> Ins("System", "IType", "RV32I", <<0>>, <<>>, <<>>, <<1>>, <<>>, <<>>, <<>>) @@
    "addiw" :> Ins("OpImm32", "IType", "RV64I", <<0>>, <<>>, <<>>, <<>>, <<>>, <<>>, <<>>) @@
    "slliw" :> Ins("OpImm32", "IType", "RV64I", <<1>>, <<>>, <<>>, <<>>, <<>>, <<3>>, <<>>) @@
    "srliw" :> Ins("OpImm32", "IType", "RV64I", <<5>>, <<>>, <<>>, <<>>, <<>>, <<4>>, <<>>) @@
    "sraiw" :> Ins("OpImm32", "IType", "RV64I", <<5>>, <<>>, <<>>, <<>>, <<>>, <<5>>, <<>>) @@
    "addw" :> Ins("Op32", "RType", "RV64I", <<0>>, <<>>, <<0>>, <<>>, <<>>, <<>>, <<>>) @@
    "subw" :> Ins("Op32", "RType", "RV64I", <<0>>, <<>>, <<32>>, <<>>, <<>>, <<>>, <<>>) @@
    "sllw" :> Ins("Op32", "RType", "RV64I", <<1>>, <<>>, <<0>>, <<>>, <<>>, <<>>, <<>>) @@
    "srlw" :> Ins("Op32", "RType", "RV64I", <<5>>, <<>>, <<0>>, <<>>, <<>>, <<>>, <<>>) @@
    "sraw" :> Ins("Op32", "RType", "RV64I", <<5>>, <<>>, <<32>>, <<>>, <<>>, <<>>, <<>>) @@
    "ld" :> Ins("Load", "IType", "RV64I", <<3>>, <<>>, <<>>, <<>>, <<>>, <<>>, <<>>) @@
    "lwu" :> Ins("Load", "IType", "RV64I", <<6>>, <<>>, <<>>, <<>>, <<>>, <<>>, <<>>) @@
    "sd" :> Ins("Store", "SType", "RV64I", <<3>>, <<>>, <<>>, <<>>, <<>>, <<>>, <<>>) @@
    "addid" :> Ins("OpImm64", "IType", "RV128I", <<0>>, <<>>, <<>>, <<>>, <<>>, <<>>, <<>>) @@
    "sllid" :> Ins("OpImm64", "IType", "RV128I", <<1>>, <<>>, <<>>, <<>>, <<>>, <<6>>, <<>>) @@
    "srlid" :> Ins("OpImm64", "IType", "RV128I", <<5>>, <<>>, <<>>, <<>>, <<>>, <<7>>, <<>>) @@
    "sraid" :> Ins("OpImm64", "IType", "RV128I", <<5>>, <<>>, <<>>, <<>>, <<>>, <<8>>, <<>>) @@
    "addd" :> Ins("Op64", "RType", "RV128I", <<0>>, <<>>, <<0>>, <<>>, <<>>, <<>>, <<>>) @@
    "subd" :> Ins("Op64", "RType", "RV128I", <<0>>, <<>>, <<32>>, <<>>, <<>>, <<>>, <<>>) @@
    "slld" :> Ins("Op64", "RType", "RV128I", <<1>>, <<>>, <<0>>, <<>>, <<>>, <<>>, <<>>) @@
    "srld" :> Ins("Op64", "RType", "RV128I", <<5>>, <<>>, <<0>>, <<>>, <<>>, <<>>, <<>>) @@
    "srad" :> Ins("Op64", "RType", "RV128I", <<5>>, <<>>, <<32>>, <<>>, <<>>, <<>>, <<>>) @@
    "lq" :> Ins("MiscMem", "IType", "RV128I", <<2>>, <<>>, <<>>, <<>>, <<>>, <<>>, <<>>) @@
    "ldu" :> Ins("Load", "IType", "RV128I", <<7>>, <<>>, <<>>, <<>>, <<>>, <<>>, <<>>) @@
    "sq" :> Ins("Store", "SType", "RV128I", <<4>>, <<>>, <<>>, <<>>, <<>>, <<>>, <<>>) @@
    "fence.i" :> Ins("MiscMem", "SType", "ZiFencei", <<1>>, <<>>, <<>>, <<>>, <<>>, <<>>, <<>>) @@
    "csrrw" :> Ins("System", "IType", "Zicsr", <<1>>, <<>>, <<>>, <<>>, <<>>, <<>>, <<>>) @@
    "csrrs" :> Ins("System", "IType", "Zicsr", <<2>>, <<>>, <<>>, <<>>, <<>>, <<>>, <<>>) @@
    "csrrc" :> Ins("System", "IType", "Zicsr", <<3>>, <<>>, <<>>, <<>>, <<>>, <<>>, <<>>) @@
    "csrrwi" :> Ins("System", "IType", "Zicsr", <<5>>, <<>>, <<>>, <<>>, <<>>, <<>>, <<>>) @@
    "csrrsi" :> Ins("System", "IType", "Zicsr", <<6>>, <<>>, <<>>, <<>>, <<>>, <<>>, <<>>) @@
    "csrrci" :> Ins("System", "IType", "Zicsr", <<7>>, <<>>, <<>>, <<>>, <<>>, <<>>, <<>>) @@
    "mul" :> Ins("Op", "RType", "RV32M", <<0>>, <<>>, <<1>>, <<>>, <<>>, <<>>, <<>>) @@
    "mulh" :> Ins("Op", "RType", "RV32M", <<1>>, <<>>, <<1>>, <<>>, <<>>, <<>>, <<>>) @@
    "mulhsu" :> Ins("Op", "RType", "RV32M", <<2>>, <<>>, <<1>>, <<>>, <<>>, <<>>, <<>>) @@
    "mulhu" :> Ins("Op", "RType", "RV32M", <<3>>, <<>>, <<1>>, <<>>, <<>>, <<>>, <<>>) @@
    "div" :> Ins("Op", "RType", "RV32M", <<4>>, <<>>, <<1>>, <<>>, <<>>, <<>>, <<>>) @@
    "divu" :> Ins("Op", "RType", "RV32M", <<5>>, <<>>, <<1>>, <<>>, <<>>, <<>>, <<>>) @@
    "rem" :> Ins("Op", "RType", "RV32M", <<6>>, <<>>, <<1>>, <<>>, <<>>, <<>>, <<>>) @@
    "remu" :> Ins("Op", "RType", "RV32M", <<7>>, <<>>, <<1>>, <<>>, <<>>, <<>>, <<>>) @@
    "mulw" :> Ins("Op32", "RType", "RV64M", <<0>>, <<>>, <<1>>, <<>>, <<>>, <<>>, <<>>) @@
    "divw" :> Ins("Op32", "RType", "RV64M", <<4>>, <<>>, <<1>>, <<>>, <<>>, <<>>, <<>>) @@
    "divuw" :> Ins("Op32", "RType", "RV64M", <<5>>, <<>>, <<1>>, <<>>, <<>>, <<>>, <<>>) @@
    "remw" :> Ins("Op32", "RType", "RV64M", <<6>>, <<>>, <<1>>, <<>>, <<>>, <<>>, <<>>) @@
    "remuw" :> Ins("Op32", "RType", "RV64M", <<7>>, <<>>, <<1>>, <<>>, <<>>, <<>>, <<>>) @@
    "muld" :> Ins("Op64", "RType", "RV128M", <<0>>, <<>>, <<1>>, <<>>, <<>>, <<>>, <<>>) @@
    "divd" :> Ins("Op64", "RType", "RV128M", <<4>>, <<>>, <<1>>, <<>>, <<>>, <<>>, <<>>) @@
    "divud" :> Ins("Op64", "RType", "RV128M", <<5>>, <<>>, <<1>>, <<>>, <<>>, <<>>, <<>>) @@
    "remd" :> Ins("Op64", "RType", "RV128M", <<6>>, <<>>, <<1>>, <<>>, <<>>, <<>>, <<>>) @@
    "remud" :> Ins("Op64", "RType", "RV128M", <<7>>, <<>>, <<1>>, <<>>, <<>>, <<>>, <<>>) @@
    "lr.w" :> Ins("Amo", "RType", "RV32A", <<2>>, <<2>>, <<>>, <<>>, <<>>, <<>>, <<>>) @@
    "sc.w" :> Ins("Amo", "RType", "RV32A", <<2>>, <<3>>, <<>>, <<>>, <<>>, <<>>, <<>>) @@
    "amoswap.w" :> Ins("Amo", "RType", "RV32A", <<2>>, <<1>>, <<>>, <<>>, <<>>, <<>>, <<>>) @@
    "amoadd.w" :> Ins("Amo", "RType", "RV32A", <<2>>, <<0>>, <<>>, <<>>, <<>>, <<>>, <<>>) @@
    "amoxor.w" :> Ins("Amo", "RType", "RV32A", <<2>>, <<4>>, <<>>, <<>>, <<>>, <<>>, <<>>) @@
    "amoand.w" :> Ins("Amo", "RType", "RV32A", <<2>>, <<12>>, <<>>, <<>>, <<>>, <<>>, <<>>) @@
    "amoor.w" :> Ins("Amo", "RType", "RV32A", <<2>>, <<8>>, <<>>, <<>>, <<>>, <<>>, <<>>) @@
    "amomin.w" :> Ins("Amo", "RType", "RV32A", <<2>>, <<16>>, <<>>, <<>>, <<>>, <<>>, <<>>) @@
    "amomax.w" :> Ins("Amo", "RType", "RV32A", <<2>>, <<20>>, <<>>, <<>>, <<>>, <<>>, <<>>) @@
    "amominu.w" :> Ins("Amo", "RType", "RV32A", <<2>>, <<24>>, <<>>, <<>>, <<>>, <<>>, <<>>) @@
    "amomaxu.w" :> Ins("Amo", "RType", "RV32A", <<2>>, <<28>>, <<>>, <<>>, <<>>, <<>>, <<>>) @@
    "lr.d" :> Ins("Amo", "RType", "RV64A", <<3>>, <<2>>, <<>>, <<>>, <<>>, <<>>, <<>>) @@
    "sc.d" :> Ins("Amo", "RType", "RV64A", <<3>>, <<3>>, <<>>, <<>>, <<>>, <<>>, <<>>) @@
    "amoswap.d" :> Ins("Amo", "RType", "RV64A", <<3>>, <<1>>, <<>>, <<>>, <<>>, <<>>, <<>>) @@
    "amoadd.d" :> Ins("Amo", "RType", "RV64A", <<3>>, <<0>>, <<>>, <<>>, <<>>, <<>>, <<>>) @@
    "amoxor.d" :> Ins("Amo", "RType", "RV64A", <<3>>, <<4>>, <<>>, <<>>, <<>>, <<>>, <<>>) @@
    "amoand.d" :> Ins("Amo", "RType", "RV64A", <<3>>, <<12>>, <<>>, <<>>, <<>>, <<>>, <<>>) @@
    "amoor.d" :> Ins("Amo", "RType", "RV64A", <<3>>, <<8>>, <<>>, <<>>, <<>>, <<>>, <<>>) @@
    "amomin.d" :> Ins("Amo", "RType", "RV64A", <<3>>, <<16>>, <<>>, <<>>, <<>>, <<>>, <<>>) @@
    "amomax.d" :> Ins("Amo", "RType", "RV64A", <<3>>, <<20>>, <<>>, <<>>, <<>>, <<>>, <<>>) @@
    "amominu.d" :> Ins("Amo", "RType", "RV64A", <<3>>, <<24>>, <<>>, <<>>, <<>>, <<>>, <<>>) @@
    "amomaxu.d" :> Ins("Amo", "RType", "RV64A", <<3>>, <<28>>, <<>>, <<>>, <<>>, <<>>, <<>>) @@
    "lr.q" :> Ins("Amo", "RType", "RV128A", <<4>>, <<2>>, <<>>, <<>>, <<>>, <<>>, <<>>) @@
    "sc.q" :> Ins("Amo", "RType", "RV128A", <<4>>, <<3>>, <<>>, <<>>, <<>>, <<>>, <<>>) @@
    "amoswap.q" :> Ins("Amo", "RType", "RV128A", <<4>>, <<1>>, <<>>, <<>>, <<>>, <<>>, <<>>) @@
    "amoadd.q" :> Ins("Amo", "RType", "RV128A", <<4>>, <<0>>, <<>>, <<>>, <<>>, <<>>, <<>>) @@
    "amoxor.q" :> Ins("Amo", "RType", "RV128A", <<4>>, <<4>>, <<>>, <<>>, <<>>, <<>>, <<>>) @@
    "amoand.q" :> Ins("Amo", "RType", "RV128A", <<4>>, <<12>>, <<>>, <<>>, <<>>, <<>>, <<>>) @@
    "amoor.q" :> Ins("Amo", "RType", "RV128A", <<4>>, <<8>>, <<>>, <<>>, <<>>, <<>>, <<>>) @@
    "amomin.q" :> Ins("Amo", "RType", "RV128A", <<4>>, <<16>>, <<>>, <<>>, <<>>, <<>>, <<>>) @@
    "amomax.q" :> Ins("Amo", "RType", "RV128A", <<4>>, <<20>>, <<>>, <<>>, <<>>, <<>>, <<>>) @@
    "amominu.q" :> Ins("Amo", "RType", "RV128A", <<4>>, <<24>>, <<>>, <<>>, <<>>, <<>>, <<>>) @@
    "amomaxu.q" :> Ins("Amo", "RType", "RV128A", <<4>>, <<28>>, <<>>, <<>>, <<>>, <<>>, <<>>) @@
    "flw" :> Ins("LoadFp", "IType", "RV32F", <<2>>, <<>>, <<>>, <<>>, <<>>, <<>>, <<>>) @@
    "fsw" :> Ins("StoreFp", "SType", "RV32F", <<2>>, <<>>, <<>>, <<>>, <<>>, <<>>, <<>>) @@
    "fmadd.s" :> Ins("MAdd", "R4Type", "RV32F", <<>>, <<>>, <<>>, <<>>, <<0>>, <<>>, <<>>) @@
    "fmsub.s" :> Ins("MSub", "R4Type", "RV32F", <<>>, <<>>, <<>>, <<>>, <<0>>, <<>>, <<>>) @@
    "fnmadd.s" :> Ins("NmAdd", "R4Type", "RV32F", <<>>, <<>>, <<>>, <<>>, <<0>>, <<>>, <<>>) @@
    "fnmsub.s" :> Ins("NmSub", "R4Type", "RV32F", <<>>, <<>>, <<>>, <<>>, <<0>>, <<>>, <<>>) @@
    "fadd.s" :> Ins("OpFp", "RType", "RV32F", <<>>, <<0>>, <<>>, <<>>, <<0>>, <<>>, <<>>) @@
    "fsub.s" :> Ins("OpFp", "RType", "RV32F", <<>>, <<1>>, <<>>, <<>>, <<0>>, <<>>, <<>>) @@
    "fmul.s" :> Ins("OpFp", "RType", "RV32F", <<>>, <<2>>, <<>>, <<>>, <<0>>, <<>>, <<>>) @@
    "fdiv.s" :> Ins("OpFp", "RType", "RV32F", <<>>, <<3>>, <<>>, <<>>, <<0>>, <<>>, <<>>) @@
    "fsqrt.s" :> Ins("OpFp", "RType", "RV32F", <<>>, <<11>>, <<>>, <<>>, <<0>>, <<>>, <<0>>) @@
    "fsgnj.s" :> Ins("OpFp", "RType", "RV32F", <<0>>, <<4>>, <<>>, <<>>, <<0>>, <<>>, <<>>) @@
    "fsgnjn.s" :> Ins("OpFp", "RType", "RV32F", <<1>>, <<4>>, <<>>, <<>>, <<0>>, <<>>, <<>>) @@
    "fsgnjx.s" :> Ins("OpFp", "RType", "RV32F", <<2>>, <<4>>, <<>>, <<>>, <<0>>, <<>>, <<>>) @@
    "fmin.s" :> Ins("OpFp", "RType", "RV32F", <<0>>, <<5>>, <<>>, <<>>, <<0>>, <<>>, <<>>) @@
    "fmax.s" :> Ins("OpFp", "RType", "RV32F", <<1>>, <<5>>, <<>>, <<>>, <<0>>, <<>>, <<>>) @@
    "feq.s" :> Ins("OpFp", "RType", "RV32F", <<2>>, <<20>>, <<>>, <<>>, <<0>>, <<>>, <<>>) @@
    "flt.s" :> Ins("OpFp", "RType", "RV32F", <<1>>, <<20>>, <<>>, <<>>, <<0>>, <<>>, <<>>) @@
    "fle.s" :> Ins("OpFp", "RType", "RV32F", <<0>>, <<20>>, <<>>, <<>>, <<0>>, <<>>, <<>>) @@
    "fcvt.w.s" :> Ins("OpFp", "RType", "RV32F", <<>>, <<24>>, <<>>, <<>>, <<0>>, <<>>, <<0>>) @@
    "fcvt.wu.s" :> Ins("OpFp", "RType", "RV32F", <<>>, <<24>>, <<>>, <<>>, <<0>>, <<>>, <<1>>) @@
    "fcvt.s.w" :> Ins("OpFp", "RType", "RV32F", <<>>, <<26>>, <<>>, <<>>, <<0>>, <<>>, <<0>>) @@
    "fcvt.s.wu" :> Ins("OpFp", "RType", "RV32F", <<>>, <<26>>, <<>>, <<>>, <<0>>, <<>>, <<1>>) @@
    "fclass.s" :> Ins("OpFp", "RType", "RV32F", <<1>>, <<28>>, <<>>, <<>>, <<0>>, <<>>, <<0>>) @@
    "fmv.x.w" :> Ins("OpFp", "RType", "RV32F", <<0>>, <<28>>, <<>>, <<>>, <<0>>, <<>>, <<0>>) @@
    "fmv.w.x" :> Ins("OpFp", "RType", "RV32F", <<0>>, <<30>>, <<>>, <<>>, <<0>>, <<>>, <<0>>) @@
    "fcvt.l.s" :> Ins("OpFp", "RType", "RV64F", <<>>, <<24>>, <<>>, <<>>, <<0>>, <<>>, <<2>>) @@
    "fcvt.lu.s" :> Ins("OpFp", "RType", "RV64F", <<>>, <<24>>, <<>>, <<>>, <<0>>, <<>>, <<3>>) @@
    "fcvt.s.l" :> Ins("OpFp", "RType", "RV64F", <<>>, <<26>>, <<>>, <<>>, <<0>>, <<>>, <<2>>) @@
    "fcvt.s.lu" :> Ins("OpFp", "RType", "RV64F", <<>>, <<26>>, <<>>, <<>>, <<0>>, <<>>, <<3>>) @@
    "fcvt.t.s" :> Ins("OpFp", "RType", "RV128F", <<>>, <<24>>, <<>>, <<>>, <<0>>, <<>>, <<4>>) @@
    "fcvt.tu.s" :> Ins("OpFp", "RType", "RV128F", <<>>, <<24>>, <<>>, <<>>, <<0>>, <<>>, <<5>>) @@
    "fcvt.s.t" :> Ins("OpFp", "RType", "RV128F", <<>>, <<26>>, <<>>, <<>>, <<0>>, <<>>, <<4>>) @@
    "fcvt.s.tu" :> Ins("OpFp", "RType", "RV128F", <<>>, <<26>>, <<>>, <<>>, <<0>>, <<>>, <<5>>) @@
    "fld" :> Ins("LoadFp", "IType", "RV32D", <<3>>, <<>>, <<>>, <<>>, <<>>, <<>>, <<>>) @@
    "fsd" :> Ins("StoreFp", "SType", "RV32D", <<3>>, <<>>, <<>>, <<>>, <<>>, <<>>, <<>>) @@
    "fmadd.d" :> Ins("MAdd", "R4Type", "RV32D", <<>>, <<>>, <<>>, <<>>, <<1>>, <<>>, <<>>) @@
    "fmsub.d" :> Ins("MSub", "R4Type", "RV32D", <<>>, <<>>, <<>>, <<>>, <<1>>, <<>>, <<>>) @@
    "fnmadd.d" :> Ins("NmAdd", "R4Type", "RV32D", <<>>, <<>>, <<>>, <<>>, <<1>>, <<>>, <<>>) @@
    "fnmsub.d" :> Ins("NmSub", "R4Type", "RV32D", <<>>, <<>>, <<>>, <<>>, <<1>>, <<>>, <<>>) @@
    "fadd.d" :> Ins("OpFp", "RType", "RV32D", <<>>, <<0>>, <<>>, <<>>, <<1>>, <<>>, <<>>) @@
    "fsub.d" :> Ins("OpFp", "RType", "RV32D", <<>>, <<1>>, <<>>, <<>>, <<1>>, <<>>, <<>>) @@
    "fmul.d" :> Ins("OpFp", "RType", "RV32D", <<>>, <<2>>, <<>>, <<>>, <<1>>, <<>>, <<>>) @@
    "fdiv.d" :> Ins("OpFp", "RType", "RV32D", <<>>, <<3>>, <<>>, <<>>, <<1>>, <<>>, <<>>) @@
    "fsqrt.d" :> Ins("OpFp", "RType", "RV32D", <<>>, <<11>>, <<>>, <<>>, <<1>>, <<>>, <<0>>) @@
    "fsgnj.d" :> Ins("OpFp", "RType", "RV32D", <<0>>, <<4>>, <<>>, <<>>, <<1>>, <<>>, <<>>) @@
    "fsgnjn.d" :> Ins("OpFp", "RType", "RV32D", <<1>>, <<4>>, <<>>, <<>>, <<1>>, <<>>, <<>>) @@
    "fsgnjx.d" :> Ins("OpFp", "RType", "RV32D", <<2>>, <<4>>, <<>>, <<>>, <<1>>, <<>>, <<>>) @@
    "fmin.d" :> Ins("OpFp", "RType", "RV32D", <<0>>, <<5>>, <<>>, <<>>, <<1>>, <<>>, <<>>) @@
    "fmax.d" :> Ins("OpFp", "RType", "RV32D", <<1>>, <<5>>, <<>>, <<>>, <<1>>, <<>>, <<>>) @@
    "feq.d" :> Ins("OpFp", "RType", "RV32D", <<2>>, <<20>>, <<>>, <<>>, <<1>>, <<>>, <<>>) @@
    "flt.d" :> Ins("OpFp", "RType", "RV32D", <<1>>, <<20>>, <<>>, <<>>, <<1>>, <<>>, <<>>) @@
    "fle.d" :> Ins("OpFp", "RType", "RV32D", <<0>>, <<20>>, <<>>, <<>>, <<1>>, <<>>, <<>>) @@
    "fcvt.w.d" :> Ins("OpFp", "RType", "RV32D", <<>>, <<24>>, <<>>, <<>>, <<1>>, <<>>, <<0>>) @@
    "fcvt.wu.d" :> Ins("OpFp", "RType", "RV32D", <<>>, <<24>>, <<>>, <<>>, <<1>>, <<>>, <<1>>) @@
    "fcvt.d.w" :> Ins("OpFp", "RType", "RV32D", <<>>, <<26>>, <<>>, <<>>, <<1>>, <<>>, <<0>>) @@
    "fcvt.d.wu" :> Ins("OpFp", "RType", "RV32D", <<>>, <<26>>, <<>>, <<>>, <<1>>, <<>>, <<1>>) @@
    "fcvt.s.d" :> Ins("OpFp", "RType", "RV32D", <<>>, <<8>>, <<>>, <<>>, <<0>>, <<>>, <<0>>) @@
    "fcvt.d.s" :> Ins("OpFp", "RType", "RV32D", <<>>, <<8>>, <<>>, <<>>, <<1>>, <<>>, <<0>>) @@
    "fclass.d" :> Ins("OpFp", "RType", "RV32D", <<1>>, <<28>>, <<>>, <<>>, <<1>>, <<>>, <<0>>) @@
    "fmv.x.d" :> Ins("OpFp", "RType", "RV64D", <<0>>, <<28>>, <<>>, <<>>, <<1>>, <<>>, <<0>>) @@
    "fmv.d.x" :> Ins("OpFp", "RType", "RV64D", <<0>>, <<30>>, <<>>, <<>>, <<1>>, <<>>, <<0>>) @@
    "fcvt.l.d" :> Ins("OpFp", "RType", "RV64D", <<>>, <<24>>, <<>>, <<>>, <<1>>, <<>>, <<2>>) @@
    "fcvt.lu.d" :> Ins("OpFp", "RType", "RV64D", <<>>, <<24>>, <<>>, <<>>, <<1>>, <<>>, <<3>>) @@
    "fcvt.d.l" :> Ins("OpFp", "RType", "RV64D", <<>>, <<26>>, <<>>, <<>>, <<1>>, <<>>, <<2>>) @@
    "fcvt.d.lu" :> Ins("OpFp", "RType", "RV64D", <<>>, <<26>>, <<>>, <<>>, <<1>>, <<>>, <<3>>) @@
    "fcvt.t.d" :> Ins("OpFp", "RType", "RV128D", <<>>, <<24>>, <<>>, <<>>, <<1>>, <<>>, <<4>>) @@
    "fcvt.tu.d" :> Ins("OpFp", "RType", "RV128D", <<>>, <<24>>, <<>>, <<>>, <<1>>, <<>>, <<5>>) @@
    "fcvt.d.t" :> Ins("OpFp", "RType", "RV128D", <<>>, <<26>>, <<>>, <<>>, <<1>>, <<>>, <<4>>) @@
    "fcvt.d.tu" :> Ins("OpFp", "RType", "RV128D", <<>>, <<26>>, <<>>, <<>>, <<1>>, <<>>, <<5>>) @@
    "flq" :> Ins("LoadFp", "IType", "RV32Q", <<4>>, <<>>, <<>>, <<>>, <<>>, <<>>, <<>>) @@
    "fsq" :> Ins("StoreFp", "SType", "RV32Q", <<4>>, <<>>, <<>>, <<>>, <<>>, <<>>, <<>>) @@
    "fmadd.q" :> Ins("MAdd", "R4Type", "RV32Q", <<>>, <<>>, <<>>, <<>>, <<3>>, <<>>, <<>>) @@
    "fmsub.q" :> Ins("MSub", "R4Type", "RV32Q", <<>>, <<>>, <<>>, <<>>, <<3>>, <<>>, <<>>) @@
    "fnmadd.q" :> Ins("NmAdd", "R4Type", "RV32Q", <<>>, <<>>, <<>>, <<>>, <<3>>, <<>>, <<>>) @@
    "fnmsub.q" :> Ins("NmSub", "R4Type", "RV32Q", <<>>, <<>>, <<>>, <<>>, <<3>>, <<>>, <<>>) @@
    "fadd.q" :> Ins("OpFp", "RType", "RV32Q", <<>>, <<0>>, <<>>, <<>>, <<3>>, <<>>, <<>>) @@
    "fsub.q" :> Ins("OpFp", "RType", "RV32Q", <<>>, <<1>>, <<>>, <<>>, <<3>>, <<>>, <<>>) @@
    "fmul.q" :> Ins("OpFp", "RType", "RV32Q", <<>>, <<2>>, <<>>, <<>>, <<3>>, <<>>, <<>>) @@
    "fdiv.q" :> Ins("OpFp", "RType", "RV32Q", <<>>, <<3>>, <<>>, <<>>, <<3>>, <<>>, <<>>) @@
    "fsqrt.q" :> Ins("OpFp", "RType", "RV32Q", <<>>, <<11>>, <<>>, <<>>, <<3>>, <<>>, <<0>>) @@
    "fsgnj.q" :> Ins("OpFp", "RType", "RV32Q", <<0>>, <<4>>, <<>>, <<>>, <<3>>, <<>>, <<>>) @@
    "fsgnjn.q" :> Ins("OpFp", "RType", "RV32Q", <<1>>, <<4>>, <<>>, <<>>, <<3>>, <<>>, <<>>) @@
    "fsgnjx.q" :> Ins("OpFp", "RType", "RV32Q", <<2>>, <<4>>, <<>>, <<>>, <<3>>, <<>>, <<>>) @@
    "fmin.q" :> Ins("OpFp", "RType", "RV32Q", <<0>>, <<5>>, <<>>, <<>>, <<3>>, <<>>, <<>>) @@
    "fmax.q" :> Ins("OpFp", "RType", "RV32Q", <<1>>, <<5>>, <<>>, <<>>, <<3>>, <<>>, <<>>) @@
    "feq.q" :> Ins("OpFp", "RType", "RV32Q", <<2>>, <<20>>, <<>>, <<>>, <<3>>, <<>>, <<>>) @@
    "flt.q" :> Ins("OpFp", "RType", "RV32Q", <<1>>, <<20>>, <<>>, <<>>, <<3>>, <<>>, <<>>) @@
    "fle.q" :> Ins("OpFp", "RType", "RV32Q", <<0>>, <<20>>, <<>>, <<>>, <<3>>, <<>>, <<>>) @@
    "fcvt.w.q" :> Ins("OpFp", "RType", "RV32Q", <<>>, <<24>>, <<>>, <<>>, <<3>>, <<>>, <<0>>) @@
    "fcvt.wu.q" :> Ins("OpFp", "RType", "RV32Q", <<>>, <<24>>, <<>>, <<>>, <<3>>, <<>>, <<1>>) @@
    "fcvt.q.w" :> Ins("OpFp", "RType", "RV32Q", <<>>, <<26>>, <<>>, <<>>, <<3>>, <<>>, <<0>>) @@
    "fcvt.q.wu" :> Ins("OpFp", "RType", "RV32Q", <<>>, <<26>>, <<>>, <<>>, <<3>>, <<>>, <<1>>) @@
    "fcvt.s.q" :> Ins("OpFp", "RType", "RV32Q", <<>>, <<8>>, <<>>, <<>>, <<0>>, <<>>, <<0>>) @@
    "fcvt.q.s" :> Ins("OpFp", "RType", "RV32Q", <<>>, <<8>>, <<>>, <<>>, <<3>>, <<>>, <<0>>) @@
    "fcvt.d.q" :> Ins("OpFp", "RType", "RV32Q", <<>>, <<8>>, <<>>, <<>>, <<1>>, <<>>, <<0>>) @@
    "fcvt.q.d" :> Ins("OpFp", "RType", "RV32Q", <<>>, <<8>>, <<>>, <<>>, <<3>>, <<>>, <<0>>) @@
    "fclass.q" :> Ins("OpFp", "RType", "RV32Q", <<1>>, <<28>>, <<>>, <<>>, <<3>>, <<>>, <<0>>) @@
    "fcvt.l.q" :> Ins("OpFp", "RType", "RV64Q", <<>>, <<24>>, <<>>, <<>>, <<3>>, <<>>, <<2>>) @@
    "fcvt.lu.q" :> Ins("OpFp", "RType", "RV64Q", <<>>, <<24>>, <<>>, <<>>, <<3>>, <<>>, <<3>>) @@
    "fcvt.q.l" :> Ins("OpFp", "RType", "RV64Q", <<>>, <<26>>, <<>>, <<>>, <<3>>, <<>>, <<2>>) @@
    "fcvt.q.lu" :> Ins("OpFp", "RType", "RV64Q", <<>>, <<26>>, <<>>, <<>>, <<3>>, <<>>, <<3>>) @@
    "fmv.x.q" :> Ins("OpFp", "RType", "RV128Q", <<0>>, <<28>>, <<>>, <<>>, <<3>>, <<>>, <<0>>) @@
    "fmv.q.x" :> Ins("OpFp", "RType", "RV128Q", <<0>>, <<30>>, <<>>, <<>>, <<3>>, <<>>, <<0>>) @@
    "fcvt.t.q" :> Ins("OpFp", "RType", "RV128Q", <<>>, <<24>>, <<>>, <<>>, <<3>>, <<>>, <<4>>) @@
    "fcvt.tu.q" :> Ins("OpFp", "RType", "RV128Q", <<>>, <<24>>, <<>>, <<>>, <<3>>, <<>>, <<5>>) @@
    "fcvt.q.t" :> Ins("OpFp", "RType", "RV128Q", <<>>, <<26>>, <<>>, <<>>, <<3>>, <<>>, <<4>>) @@
    "fcvt.q.tu" :> Ins("OpFp", "RType", "RV128Q", <<>>, <<26>>, <<>>, <<>>, <<3>>, <<>>, <<5>>)

---------------------------------------------------------------------------
(* The input text.  A logical line is what Lexer::new hands to process:    *)
(* comments cut, labels split off, trimmed, empty lines dropped.  An       *)
(* operand text is described by its characters' structure:                 *)
(*   TxtX(n), TxtF(n)     "x<n>", "f<n>" (n in decimal digits)             *)
(*   TxtName(s)           a word of [a-zA-Z0-9_] that is neither of the    *)
(*                        two above nor a number: "zero", "a2", "label"    *)
(*   TxtNum(v)            a decimal (optional '-') or 0x literal of value v*)
(*   TxtPct(fn, arg)      "%<fn>(<arg>)"                                   *)
(*   TxtParen(off, in)    "<off>(<in>)", off <<>> when no digits precede   *)
(*                        the parenthesis, in TxtEmpty for "()"            *)
(***************************************************************************)
TxtX(n)    == [c |-> "x", n |-> n]
TxtF(n)    == [c |-> "f", n |-> n]
TxtName(s) == [c |-> "name", s |-> s]
TxtNum(v)  == [c |-> "num", v |-> v]
\* A numeral whose value no i32 holds, by its spelling (0x100000000).
TxtBig(s)  == [c |-> "big", s |-> s]
TxtEmpty   == [c |-> "empty"]
TxtPct(fn, arg)       == [c |-> "pct", fn |-> fn, arg |-> arg]
TxtParen(off, inner)  == [c |-> "paren", off |-> off, inner |-> inner]

\* The characters of a word-like text, as the String the lexer copies.
TextString(txt) ==
    CASE txt.c \in {"name", "big"} -> txt.s
      [] txt.c = "num"   -> ToString(txt.v)
      [] txt.c = "x"     -> "x" \o ToString(txt.n)
      [] txt.c = "f"     -> "f" \o ToString(txt.n)
      [] OTHER           -> ""

SrcLabel(name)              == [l |-> "label", name |-> name]
SrcMacro(name, formals)     == [l |-> "macro", name |-> name, formals |-> formals]
SrcEndm                     == [l |-> "endm"]
SrcData(kind, values)       == [l |-> "data", kind |-> kind, values |-> values]
SrcString(text)             == [l |-> "string", text |-> text]
\* `.name` with nothing after it (.text, .data, ...).
SrcBare(name)               == [l |-> "bare", name |-> name]
\* `.section NAME, "FLAGS"`: quoted is <<>> when the arguments hold no quoted
\* string, else <<letters>> with letters the sequence of its characters.
SrcSection(name, quoted)    == [l |-> "section", name |-> name, quoted |-> quoted]
SrcInstr(mnemonic, operands) ==
    [l |-> "instruction", mnemonic |-> mnemonic, operands |-> operands]

---------------------------------------------------------------------------
(* src/src/arch.rs: the register-name table *)

CONVENTIONAL_TO_ABI ==
    "zero" :> TxtX(0) @@ "ra" :> TxtX(1) @@ "sp" :> TxtX(2) @@ "gp" :> TxtX(3) @@
    "tp" :> TxtX(4) @@ "t0" :> TxtX(5) @@ "t1" :> TxtX(6) @@ "t2" :> TxtX(7) @@
    "s0" :> TxtX(8) @@ "s1" :> TxtX(9) @@ "a0" :> TxtX(10) @@ "a1" :> TxtX(11) @@
    "a2" :> TxtX(12) @@ "a3" :> TxtX(13) @@ "a4" :> TxtX(14) @@ "a5" :> TxtX(15) @@
    "a6" :> TxtX(16) @@ "a7" :> TxtX(17) @@ "s2" :> TxtX(18) @@ "s3" :> TxtX(19) @@
    "s4" :> TxtX(20) @@ "s5" :> TxtX(21) @@ "s6" :> TxtX(22) @@ "s7" :> TxtX(23) @@
    "s8" :> TxtX(24) @@ "s9" :> TxtX(25) @@ "s10" :> TxtX(26) @@ "s11" :> TxtX(27) @@
    "t3" :> TxtX(28) @@ "t4" :> TxtX(29) @@ "t5" :> TxtX(30) @@ "t6" :> TxtX(31) @@
    "fp" :> TxtX(8) @@ "ft0" :> TxtF(0) @@ "ft1" :> TxtF(1) @@ "ft2" :> TxtF(2) @@
    "ft3" :> TxtF(3) @@ "ft4" :> TxtF(4) @@ "ft5" :> TxtF(5) @@ "ft6" :> TxtF(6) @@
    "ft7" :> TxtF(7) @@ "fs0" :> TxtF(8) @@ "fs1" :> TxtF(9) @@ "fa0" :> TxtF(10) @@
    "fa1" :> TxtF(11) @@ "fa2" :> TxtF(12) @@ "fa3" :> TxtF(13) @@ "fa4" :> TxtF(14) @@
    "fa5" :> TxtF(15) @@ "fa6" :> TxtF(16) @@ "fa7" :> TxtF(17) @@ "fs2" :> TxtF(18) @@
    "fs3" :> TxtF(19) @@ "fs4" :> TxtF(20) @@ "fs5" :> TxtF(21) @@ "fs6" :> TxtF(22) @@
    "fs7" :> TxtF(23) @@ "fs8" :> TxtF(24) @@ "fs9" :> TxtF(25) @@ "fs10" :> TxtF(26) @@
    "fs11" :> TxtF(27) @@ "ft8" :> TxtF(28) @@ "ft9" :> TxtF(29) @@ "ft10" :> TxtF(30) @@
    "ft11" :> TxtF(31)

---------------------------------------------------------------------------
(* src/src/lexer.rs: the lexer *)

LexOk(value) == [tag |-> "Ok", kind |-> "", value |-> value]
LexErr(kind) == [tag |-> "Err", kind |-> kind, value |-> <<>>]

\* The alias alternatives of REGISTER_REGEX:
\* zero|ra|sp|gp|tp|t[0-6]|s[0-1][0-1]?|a[0-7]|ft[0-7]|fs[0-1][0-1]?|fa[0-7]
REGISTER_REGEX_names ==
    {"zero", "ra", "sp", "gp", "tp"}
    \cup {"t" \o ToString(i) : i \in 0..6}
    \cup {"s0", "s1", "s00", "s01", "s10", "s11"}
    \cup {"a" \o ToString(i) : i \in 0..7}
    \cup {"ft" \o ToString(i) : i \in 0..7}
    \cup {"fs0", "fs1", "fs00", "fs01", "fs10", "fs11"}
    \cup {"fa" \o ToString(i) : i \in 0..7}

\* REGISTER_REGEX.is_match: x\d+, f\d+ or one of the aliases.
REGISTER_REGEX(txt) ==
    \/ txt.c \in {"x", "f"}
    \/ txt.c = "name" /\ txt.s \in REGISTER_REGEX_names

\* RELATIVE_ADDRESS_REGEX.is_match: (-?\d+)\(([a-zA-Z_][a-zA-Z0-9_]*)\)
RELATIVE_ADDRESS_REGEX(txt) ==
    /\ txt.c = "paren"
    /\ txt.off # <<>>
    /\ txt.inner.c \in {"x", "f", "name"}

\* The function names RELOCATION_REGEX accepts after the '%':
\* ((?:pc|tp)?rel_)?(hi|lo|add) directly followed by '('.
RELOCATION_REGEX_names ==
    {p \o fn : p \in {"", "rel_", "pcrel_", "tprel_"}, fn \in {"hi", "lo", "add"}}

\* RELOCATION_REGEX.is_match: %((?:pc|tp)?rel_)?(hi|lo|add)\([^)]+\)
RELOCATION_REGEX(txt) ==
    /\ txt.c = "pct"
    /\ txt.fn \in RELOCATION_REGEX_names
    /\ txt.arg.c # "empty"

\* SIGNED_REGEX.is_match: ^(-\d+|\d+|0x[0-9a-fA-F]+)$
SIGNED_REGEX(txt) == txt.c \in {"num", "big"}

\* IDENTIFIER_REGEX.is_match: ^[a-zA-Z0-9_]*$ (the empty string included).
IDENTIFIER_REGEX(txt) ==
    \/ txt.c \in {"name", "x", "f", "empty", "big"}
    \/ txt.c = "num" /\ txt.v >= 0

\* The `?` operator on a Result: an Err is returned as it is, an Ok value is
\* handed on to the rest of the function.
Try(r, Rest(_)) == IF r.tag = "Ok" THEN Rest(r.value) ELSE r

\* The ABI spelling of a register text: CONVENTIONAL_TO_ABI[register] for a
\* key of the table, the text itself otherwise.
AbiText(txt) ==
    IF txt.c = "name" /\ txt.s \in DOMAIN CONVENTIONAL_TO_ABI
    THEN CONVENTIONAL_TO_ABI[txt.s] ELSE txt

\* An 'x' or 'f' prefix followed by a u32 is a register of that bank; any
\* other text is LexerErr::Parsing.
ParseAbiRegister(canon) ==
    IF canon.c \in {"x", "f"}
    THEN LexOk(Register(canon.c, canon.n))
    ELSE LexErr("Parsing")

\* Lexer::get_register: an alias is looked up in CONVENTIONAL_TO_ABI first.
Lexer_get_register(txt) == ParseAbiRegister(AbiText(txt))

\* Lexer::get_relative_address, for a text RELATIVE_ADDRESS_REGEX matched.
Lexer_get_relative_address(txt) ==
    IF REGISTER_REGEX(txt.inner)
    THEN Try(Lexer_get_register(txt.inner),
             LAMBDA reg : LexOk(Address(reg, Immediate(txt.off[1]))))
    ELSE IF IDENTIFIER_REGEX(txt.inner)
    THEN LexOk(Address(Identifier(TextString(txt.inner)), Immediate(txt.off[1])))
    ELSE LexErr("Syntax")

\* Lexer::get_relocation_function: '%' and ')' trimmed, split at '('.
Lexer_get_relocation_function(txt) ==
    IF ~IDENTIFIER_REGEX(txt.arg) THEN LexErr("Syntax")
    ELSE LexOk(RelocationFn(txt.fn, Identifier(TextString(txt.arg))))

\* One operand of Lexer::get_instruction: the regexes in their order.
Lexer_get_operand(txt) ==
    IF REGISTER_REGEX(txt)
    THEN Try(Lexer_get_register(txt), LAMBDA reg : LexOk(OperandRValue(reg)))
    ELSE IF RELATIVE_ADDRESS_REGEX(txt) THEN Lexer_get_relative_address(txt)
    ELSE IF RELOCATION_REGEX(txt) THEN Lexer_get_relocation_function(txt)
    ELSE IF SIGNED_REGEX(txt)
         THEN IF txt.c = "big" THEN LexErr("Parsing")   \* i32::parse overflows
              ELSE LexOk(OperandRValue(Immediate(txt.v)))
    ELSE IF IDENTIFIER_REGEX(txt) THEN LexOk(OperandRValue(Identifier(TextString(txt))))
    ELSE LexErr("Syntax")

\* Lexer::get_instruction: the operands left to right, the first error returned.
RECURSIVE Lexer_get_operands(_, _, _)
Lexer_get_operands(texts, i, acc) ==
    IF i > Len(texts) THEN LexOk(acc)
    ELSE Try(Lexer_get_operand(texts[i]),
             LAMBDA op : Lexer_get_operands(texts, i + 1, Append(acc, op)))

Lexer_get_instruction(line) ==
    Try(Lexer_get_operands(line.operands, 1, <<>>),
        LAMBDA ops : LexOk(Instruction(line.mnemonic, ops)))

\* Whether V::parse accepts the value for .byte/.half (i8, i16); .word and
\* .dword take every i32 / i64 the text can hold.
DataRange(kind, v) ==
    CASE kind = "Byte" -> -128 <= v /\ v <= 127
      [] kind = "Half" -> -32768 <= v /\ v <= 32767
      [] OTHER -> TRUE

\* Lexer::get_emittable_directive, parse_or::<V>: a value V::parse rejects is
\* kept as an Identifier.
Lexer_get_data(line) ==
    LexOk(DataArray(line.kind,
        [i \in DOMAIN line.values |->
            LET txt == line.values[i]
            IN IF txt.c = "num" /\ DataRange(line.kind, txt.v)
               THEN Immediate(txt.v)
               ELSE Identifier(TextString(txt))]))

\* Lexer::get_directive, "section": the flag a character of the quoted
\* string stands for. A SectionFlags value (src/src/mem.rs) is the set of the
\* flags it holds; SectionFlags::empty() is {}.
SECTION_FLAG_LETTERS ==
    "a" :> "ALLOCATE" @@ "w" :> "WRITE" @@ "x" :> "EXECUTE" @@ "m" :> "MERGE" @@
    "s" :> "STRING" @@ "g" :> "GROUP" @@ "t" :> "TLS"

\* The loop over the characters: flags |= ..., any other character returns
\* LexerErr::Parsing.
RECURSIVE section_flags_from(_, _, _)
section_flags_from(letters, i, flags) ==
    IF i > Len(letters) THEN LexOk(flags)
    ELSE IF letters[i] \notin DOMAIN SECTION_FLAG_LETTERS THEN LexErr("Parsing")
    ELSE section_flags_from(letters, i + 1, flags \cup {SECTION_FLAG_LETTERS[letters[i]]})

\* Lexer::get_directive on `section ARGS`: the token is named after the
\* directive word and aligned to 4.
Lexer_get_section(line) ==
    Try(IF line.quoted = <<>> THEN LexOk({})
        ELSE section_flags_from(line.quoted[1], 1, {}),
        LAMBDA flags : LexOk(Section("section", flags, 4)))

\* The flags of the sections that need no arguments.
DefaultSectionFlags_data_read_only(name) ==
    CASE name \in {"text", "init", "fini"} -> {"EXECUTE"}
      [] OTHER -> {"ALLOCATE"}

DefaultSectionFlags(name) ==
    CASE name \in {"text", "init", "fini"} -> {"EXECUTE"}
      [] name \in {"bss", "sbss", "rodata"} -> {"ALLOCATE"}
      [] name \in {"data", "sdata"} -> {"ALLOCATE", "WRITE"}

\* Lexer::get_directive on a directive word without arguments.
Lexer_get_bare_directive(line) ==
    IF line.name \in {"text", "init", "fini", "bss", "sbss", "rodata", "data", "sdata"}
    THEN LexOk(Section(line.name, DefaultSectionFlags(line.name), 2))
    ELSE IF line.name = "endm" THEN LexOk(Marker("endm"))
    ELSE LexErr("Parsing")

\* One line of Lexer::process.
Lexer_process_line(line) ==
    CASE line.l = "label" -> LexOk(Label(line.name))
      [] line.l = "macro" -> LexOk(MacroDirective(line.name, line.formals))
      [] line.l = "endm" -> LexOk(Marker("endm"))
      [] line.l = "data" -> Lexer_get_data(line)
      [] line.l = "string" -> LexOk(StringData(line.text))
      [] line.l = "bare" -> Lexer_get_bare_directive(line)
      [] line.l = "section" -> Lexer_get_section(line)
      [] OTHER -> Lexer_get_instruction(line)

\* Lexer::process: the lines in order, the first error returned (`?`).
RECURSIVE Lexer_process_from(_, _, _)
Lexer_process_from(code, i, acc) ==
    IF i > Len(code) THEN LexOk(acc)
    ELSE Try(Lexer_process_line(code[i]),
             LAMBDA token : Lexer_process_from(code, i + 1, Append(acc, token)))

\* Lexer::new / lex!
Lexer_new(code) == Lexer_process_from(code, 1, <<>>)

---------------------------------------------------------------------------
(* src/src/codec/enc.rs: the encoder *)

\* Result<u32, EncoderErr>, or the panic that ends the call.
EncOk(word)  == [tag |-> "Ok", kind |-> "", word |-> word]
EncErr(kind) == [tag |-> "Err", kind |-> kind, word |-> {}]
EncPanic     == [tag |-> "Panic", kind |-> "", word |-> {}]
NoResult     == [tag |-> "None", kind |-> "", word |-> {}]

\* Option::unwrap on a descriptor field that is Some.
Unwrap(opt) == opt[1]

\* Encoder::get_register(&Operand) -> Option<(char, u32)>: Some for a bare register.
Encoder_get_register(op) ==
    IF IsRegisterOperand(op) THEN <<op.rv>> ELSE <<>>

\* Encoder::get_immediate(&Operand) -> Option<&i32>: Some for a bare immediate.
Encoder_get_immediate(op) ==
    IF IsImmediateOperand(op) THEN <<op.rv.value>> ELSE <<>>

\* funct7 | rs2 | rs1 | funct3 | rd | opcode
encode_op(instruction, operands) ==
    IF Len(operands) < 3 THEN EncPanic      \* operands[2]: index out of bounds
    ELSE IF /\ IsRegisterOperand(operands[1])
            /\ IsRegisterOperand(operands[2])
            /\ IsRegisterOperand(operands[3])
    THEN LET rd     == U32(operands[1].rv.index)
             rs1    == U32(operands[2].rv.index)
             rs2    == U32(operands[3].rv.index)
             funct7 == U32(Unwrap(instruction.funct7))
             funct3 == U32(Unwrap(instruction.funct3))
             opcode == U32(Opcode[instruction.opcode])
         IN EncOk(BitOr(<<Shl(funct7, 25), Shl(rs2, 20), Shl(rs1, 15),
                          Shl(funct3, 12), Shl(rd, 7), opcode>>))
    ELSE EncErr("Operands")

encode_fp(instruction, operands) ==
    IF Len(operands) < 3 THEN EncPanic
    ELSE IF /\ IsRegisterOperand(operands[1])
            /\ IsRegisterOperand(operands[2])
            /\ IsRegisterOperand(operands[3])
    THEN LET FRM    == {}
             funct5 == U32(Unwrap(instruction.funct5))
             opcode == U32(Opcode[instruction.opcode])
             float_rd  == 4 \in funct5
             float_rs1 == IF 3 \in funct5 THEN 3 \in funct5 ELSE ~float_rd
             rd0  == U32(operands[1].rv.index)
             rs10 == U32(operands[2].rv.index)
             rd   == IF float_rd THEN rd0 ELSE rd0 \cap LowMask(5)
             rs1  == IF float_rs1 THEN rs10 ELSE rs10 \cap LowMask(5)
             rs2  == IF instruction.rs2 # <<>>
                     THEN U32(Unwrap(instruction.rs2))
                     ELSE U32(operands[3].rv.index) \cap LowMask(5)
         IN EncOk(BitOr(<<Shl(funct5, 25), Shl(rs2, 20), Shl(rs1, 15),
                          Shl(FRM, 12), Shl(rd, 7), opcode>>))
    ELSE EncErr("Operands")

encode_amo(instruction, operands) ==
    IF Len(operands) < 3 THEN EncPanic
    ELSE IF /\ IsRegisterOperand(operands[1])
            /\ IsRegisterOperand(operands[2])
            /\ IsRegisterOperand(operands[3])
    THEN LET rd     == U32(operands[1].rv.index)
             rs1    == U32(operands[2].rv.index)
             rs2    == U32(operands[3].rv.index)
             funct5 == U32(Unwrap(instruction.funct5))
             funct3 == U32(Unwrap(instruction.funct3))
             opcode == U32(Opcode[instruction.opcode])
             AQ     == {}
             RL     == {}
         IN EncOk(BitOr(<<Shl(funct5, 27), Shl(AQ, 26), Shl(RL, 25), Shl(rs2, 20),
                          Shl(rs1, 15), Shl(funct3, 12), Shl(rd, 7), opcode>>))
    ELSE EncErr("Operands")

\* imm[11:0] | rs1 | funct3 | rd | opcode, operand 1 an Address(Register, Immediate).
encode_jalr(instruction, operands) ==
    IF Len(operands) < 2 THEN EncPanic
    ELSE IF IsRegisterOperand(operands[1]) /\ IsRegImmAddress(operands[2])
    THEN LET rd     == U32(operands[1].rv.index)
             rs1    == U32(operands[2].base.index)
             funct3 == U32(Unwrap(instruction.funct3))
             opcode == U32(Opcode[instruction.opcode])
             imm    == U32(operands[2].offset.value) \cap LowMask(12)
         IN EncOk(BitOr(<<Shl(imm, 20), Shl(rs1, 15), Shl(funct3, 12), Shl(rd, 7), opcode>>))
    ELSE EncErr("Operands")

encode_load(instruction, operands) ==
    IF Len(operands) < 2 THEN EncPanic
    ELSE IF IsRegisterOperand(operands[1]) /\ IsRegImmAddress(operands[2])
    THEN LET rd     == U32(operands[1].rv.index)
             rs1    == U32(operands[2].base.index)
             funct3 == U32(Unwrap(instruction.funct3))
             opcode == U32(Opcode[instruction.opcode])
             imm    == U32(operands[2].offset.value) \cap LowMask(12)
         IN EncOk(BitOr(<<Shl(imm, 20), Shl(rs1, 15), Shl(funct3, 12), Shl(rd, 7), opcode>>))
    ELSE EncErr("Operands")

\* The shamt width the code selects from the opcode (enc.rs:239-244).
shamt_width(instruction) ==
    CASE instruction.opcode = "OpImm32" -> 5
      [] instruction.opcode = "OpImm64" -> 6
      [] OTHER -> 7

encode_op_imm(instruction, operands) ==
    IF Len(operands) < 3 THEN EncPanic
    ELSE IF /\ IsRegisterOperand(operands[1])
            /\ IsRegisterOperand(operands[2])
            /\ IsImmediateOperand(operands[3])
    THEN LET rd        == U32(operands[1].rv.index)
             rs1       == U32(operands[2].rv.index)
             immediate == operands[3].rv.value
             funct3    == U32(Unwrap(instruction.funct3))
             opcode    == U32(Opcode[instruction.opcode])
             width     == shamt_width(instruction)
             imm_11_7  == U32(Unwrap(instruction.shift))
             imm_6_0   == U32(immediate) \cap LowMask(width)
             imm       == IF instruction.shift # <<>>
                          THEN BitOr(<<Shl(imm_11_7, 6), imm_6_0>>)
                          ELSE U32(immediate) \cap LowMask(12)
         IN IF instruction.shift # <<>> /\ (immediate < 0 \/ immediate >= 2^width)
            THEN EncErr("Operands")
            ELSE EncOk(BitOr(<<Shl(imm, 20), Shl(rs1, 15), Shl(funct3, 12),
                               Shl(rd, 7), opcode>>))
    ELSE EncErr("Operands")

encode_misc_mem(mnemonic, instruction, operands) ==
    LET funct3 == U32(Unwrap(instruction.funct3))
        opcode == U32(Opcode[instruction.opcode])
        Word(imm, rs1, rd) ==
            EncOk(BitOr(<<Shl(imm, 20), Shl(rs1, 15), Shl(funct3, 12), Shl(rd, 7), opcode>>))
    IN IF mnemonic = "lq"
       THEN IF Len(operands) < 2 THEN EncPanic
            ELSE IF IsRegisterOperand(operands[1]) /\ IsRegImmAddress(operands[2])
            THEN Word(U32(operands[2].offset.value) \cap LowMask(12),
                      U32(operands[2].base.index),
                      U32(operands[1].rv.index))
            ELSE EncErr("Operands")
       ELSE IF mnemonic = "fence"
       THEN IF Len(operands) < 2 THEN EncPanic
            ELSE IF IsImmediateOperand(operands[1]) /\ IsImmediateOperand(operands[2])
            THEN Word(BitOr(<<Shl(U32(operands[1].rv.value), 4), U32(operands[2].rv.value)>>),
                      {}, {})
            ELSE Word({}, {}, {})
       ELSE Word({}, {}, {})

\* funct12.unwrap() comes first (enc.rs:311): the Zicsr descriptors carry no
\* funct12, so every CSR mnemonic ends in a panic there.
encode_system(instruction, operands) ==
    IF instruction.funct12 = <<>> THEN EncPanic
    ELSE LET funct3 == U32(Unwrap(instruction.funct3))
             opcode == U32(Opcode[instruction.opcode])
             Word(imm, rs1, rd) ==
                 EncOk(BitOr(<<Shl(imm, 20), Shl(rs1, 15), Shl(funct3, 12), Shl(rd, 7), opcode>>))
         IN IF instruction.isa = "Zicsr"
            THEN IF Len(operands) < 3 THEN EncPanic
                 \* funct3 & 0b1000 is 0 for every 3-bit funct3: the register arm,
                 \* get_register(&operands[2]).unwrap().
                 ELSE IF Encoder_get_register(operands[3]) = <<>> THEN EncPanic
                 ELSE IF IsRegisterOperand(operands[1]) /\ IsImmediateOperand(operands[2])
                 THEN Word(U32(operands[2].rv.value), U32(operands[3].rv.index),
                           U32(operands[1].rv.index))
                 ELSE Word(U32(Unwrap(instruction.funct12)), {}, {})
            ELSE Word(U32(Unwrap(instruction.funct12)), {}, {})

encode_store(instruction, operands) ==
    IF Len(operands) < 2 THEN EncPanic
    ELSE IF IsRegisterOperand(operands[1]) /\ IsRegImmAddress(operands[2])
    THEN LET rs2      == U32(operands[1].rv.index)
             rs1      == U32(operands[2].base.index)
             funct3   == U32(Unwrap(instruction.funct3))
             opcode   == U32(Opcode[instruction.opcode])
             imm      == U32(operands[2].offset.value) \cap LowMask(12)
             imm_11_5 == Shr(imm, 5) \cap LowMask(7)
             imm_4_0  == imm \cap LowMask(5)
         IN EncOk(BitOr(<<Shl(imm_11_5, 25), Shl(rs2, 20), Shl(rs1, 15),
                          Shl(funct3, 12), Shl(imm_4_0, 7), opcode>>))
    ELSE EncErr("Operands")

encode_branch(instruction, operands) ==
    IF Len(operands) < 3 THEN EncPanic
    ELSE IF /\ Encoder_get_register(operands[1]) # <<>>
            /\ Encoder_get_register(operands[2]) # <<>>
            /\ Encoder_get_immediate(operands[3]) # <<>>
    THEN LET rs1      == U32(Encoder_get_register(operands[1])[1].index)
             rs2      == U32(Encoder_get_register(operands[2])[1].index)
             imm_val  == U32(Encoder_get_immediate(operands[3])[1])
             funct3   == U32(Unwrap(instruction.funct3))
             opcode   == U32(Opcode[instruction.opcode])
             imm_12   == Shr(imm_val, 12) \cap LowMask(1)
             imm_11   == Shr(imm_val, 11) \cap LowMask(1)
             imm_10_5 == Shr(imm_val, 5) \cap LowMask(6)
             imm_4_1  == imm_val \cap LowMask(5)
         IN EncOk(BitOr(<<Shl(imm_12, 31), Shl(imm_10_5, 25), Shl(rs2, 20), Shl(rs1, 15),
                          Shl(funct3, 12), Shl(imm_4_1, 7), Shl(imm_11, 7), opcode>>))
    ELSE EncErr("Operands")

encode_u_type(instruction, operands) ==
    IF Len(operands) < 2 THEN EncPanic
    ELSE IF IsRegisterOperand(operands[1]) /\ IsImmediateOperand(operands[2])
    THEN LET rd      == U32(operands[1].rv.index)
             opcode  == U32(Opcode[instruction.opcode])
             imm_val == Shl(U32(operands[2].rv.value) \cap LowMask(20), 12)
         IN EncOk(BitOr(<<imm_val, Shl(rd, 7), opcode>>))
    ELSE EncErr("Operands")

encode_jal(instruction, operands) ==
    IF Len(operands) < 2 THEN EncPanic
    ELSE IF /\ Encoder_get_register(operands[1]) # <<>>
            /\ Encoder_get_immediate(operands[2]) # <<>>
    THEN LET rd        == U32(Encoder_get_register(operands[1])[1].index)
             imm_val   == U32(Encoder_get_immediate(operands[2])[1])
             opcode    == U32(Opcode[instruction.opcode])
             imm_20    == Shr(imm_val, 20) \cap LowMask(1)
             imm_19_12 == Shr(imm_val, 12) \cap LowMask(8)
             imm_11    == Shr(imm_val, 11) \cap LowMask(1)
             imm_10_1  == Shr(imm_val, 1) \cap LowMask(10)
         IN EncOk(BitOr(<<Shl(imm_20, 31), Shl(imm_19_12, 20), Shl(imm_11, 20),
                          Shl(imm_10_1, 1), Shl(rd, 7), opcode>>))
    ELSE EncErr("Operands")

\* The match on instruction.opcode in Encoder::new.
Encoder_new_match(mnemonic, instruction, operands) ==
    LET opcode == instruction.opcode
    IN CASE opcode \in {"Op", "Op32", "Op64"} -> encode_op(instruction, operands)
         [] opcode = "OpFp" -> encode_fp(instruction, operands)
         [] opcode = "Amo" -> encode_amo(instruction, operands)
         [] opcode = "Jalr" -> encode_jalr(instruction, operands)
         [] opcode \in {"Load", "LoadFp"} -> encode_load(instruction, operands)
         [] opcode \in {"OpImm", "OpImm32", "OpImm64"} -> encode_op_imm(instruction, operands)
         [] opcode = "MiscMem" -> encode_misc_mem(mnemonic, instruction, operands)
         [] opcode = "System" -> encode_system(instruction, operands)
         [] opcode \in {"Store", "StoreFp"} -> encode_store(instruction, operands)
         [] opcode = "Branch" -> encode_branch(instruction, operands)
         [] opcode \in {"Lui", "AuiPC"} -> encode_u_type(instruction, operands)
         [] opcode = "Jal" -> encode_jal(instruction, operands)
         [] opcode \in {"MAdd", "MSub", "NmAdd", "NmSub"} -> EncErr("Format")

\* Encoder::new: the mnemonic looked up in RV_ISA, EncoderErr::Mnemonic when it
\* is not a key.
Encoder_new(mnemonic, operands) ==
    IF mnemonic \notin DOMAIN RV_ISA THEN EncErr("Mnemonic")
    ELSE Encoder_new_match(mnemonic, RV_ISA[mnemonic], operands)

---------------------------------------------------------------------------
(* src/src/asm.rs: the pseudo-instruction table *)

\* One m.insert of the table: the formals and the body's source text.
Pseudo(formals, body) == [formals |-> formals, body |-> body]

PSEUDO_SOURCES ==
    "nop" :> Pseudo(<<>>,
                   <<SrcInstr("addi", <<TxtName("zero"), TxtName("zero"), TxtNum(0)>>)>>) @@
    "mv" :> Pseudo(<<"rd", "rs">>,
                   <<SrcInstr("addi", <<TxtName("rd"), TxtName("rs"), TxtNum(0)>>)>>) @@
    "not" :> Pseudo(<<"rd", "rs1">>,
                   <<SrcInstr("xori", <<TxtName("rd"), TxtName("rs1"), TxtNum(-1)>>)>>) @@
    "neg" :> Pseudo(<<"rd", "rs1">>,
                   <<SrcInstr("sub", <<TxtName("rd"), TxtX(0), TxtName("rs1")>>)>>) @@
    "negw" :> Pseudo(<<"rd", "rs1">>,
                   <<SrcInstr("subw", <<TxtName("rd"), TxtX(0), TxtName("rs1")>>)>>) @@
    "sext.w" :> Pseudo(<<"rd", "rs1">>,
                   <<SrcInstr("addiw", <<TxtName("rd"), TxtName("rs1"), TxtNum(0)>>)>>) @@
    "seqz" :> Pseudo(<<"rd", "rs1">>,
                   <<SrcInstr("sltiu", <<TxtName("rd"), TxtName("rs1"), TxtNum(1)>>)>>) @@
    "snez" :> Pseudo(<<"rd", "rs1">>,
                   <<SrcInstr("sltu", <<TxtName("rd"), TxtX(0), TxtName("rs1")>>)>>) @@
    "sltz" :> Pseudo(<<"rd", "rs1">>,
                   <<SrcInstr("slt", <<TxtName("rd"), TxtName("rs1"), TxtX(0)>>)>>) @@
    "sgtz" :> Pseudo(<<"rd", "rs1">>,
                   <<SrcInstr("slt", <<TxtName("rd"), TxtX(0), TxtName("rs1")>>)>>) @@
    "fmv.s" :> Pseudo(<<"frd", "frs1">>,
                   <<SrcInstr("fsgnj.s", <<TxtName("frd"), TxtName("frs1"), TxtName("frs1")>>)>>) @@
    "fabs.s" :> Pseudo(<<"frd", "frs1">>,
                   <<SrcInstr("fsgnjx.s", <<TxtName("frd"), TxtName("frs1"), TxtName("frs1")>>)>>) @@
    "fneg.s" :> Pseudo(<<"frd", "frs1">>,
                   <<SrcInstr("fsgnjn.s", <<TxtName("frd"), TxtName("frs1"), TxtName("frs1")>>)>>) @@
    "fmv.d" :> Pseudo(<<"frd", "frs1">>,
                   <<SrcInstr("fsgnj.d", <<TxtName("frd"), TxtName("frs1"), TxtName("frs1")>>)>>) @@
    "fabs.d" :> Pseudo(<<"frd", "frs1">>,
                   <<SrcInstr("fsgnjx.d", <<TxtName("frd"), TxtName("frs1"), TxtName("frs1")>>)>>) @@
    "fneg.d" :> Pseudo(<<"frd", "frs1">>,
                   <<SrcInstr("fsgnjn.d", <<TxtName("frd"), TxtName("frs1"), TxtName("frs1")>>)>>) @@
    "beqz" :> Pseudo(<<"rs1", "offset">>,
                   <<SrcInstr("beq", <<TxtName("rs1"), TxtX(0), TxtName("offset")>>)>>) @@
    "bnez" :> Pseudo(<<"rs1", "offset">>,
                   <<SrcInstr("bne", <<TxtName("rs1"), TxtX(0), TxtName("offset")>>)>>) @@
    "blez" :> Pseudo(<<"rs1", "offset">>,
                   <<SrcInstr("bge", <<TxtX(0), TxtName("rs1"), TxtName("offset")>>)>>) @@
    "bgez" :> Pseudo(<<"rs1", "offset">>,
                   <<SrcInstr("bge", <<TxtName("rs1"), TxtX(0), TxtName("offset")>>)>>) @@
    "bltz" :> Pseudo(<<"rs1", "offset">>,
                   <<SrcInstr("blt", <<TxtName("rs1"), TxtX(0), TxtName("offset")>>)>>) @@
    "bgtz" :> Pseudo(<<"rs1", "offset">>,
                   <<SrcInstr("blt", <<TxtX(0), TxtName("rs1"), TxtName("offset")>>)>>) @@
    "bgt" :> Pseudo(<<"rs", "rt", "offset">>,
                   <<SrcInstr("blt", <<TxtName("rt"), TxtName("rs"), TxtName("offset")>>)>>) @@
    "ble" :> Pseudo(<<"rs", "rt", "offset">>,
                   <<SrcInstr("bge", <<TxtName("rt"), TxtName("rs"), TxtName("offset")>>)>>) @@
    "bgtu" :> Pseudo(<<"rs", "rt", "offset">>,
                   <<SrcInstr("bltu", <<TxtName("rt"), TxtName("rs"), TxtName("offset")>>)>>) @@
    "bleu" :> Pseudo(<<"rt", "rs", "offset">>,
                   <<SrcInstr("bltu", <<TxtName("rt"), TxtName("rs"), TxtName("offset")>>)>>) @@
    "j" :> Pseudo(<<"offset">>,
                   <<SrcInstr("jal", <<TxtX(0), TxtName("offset")>>)>>) @@
    "jr" :> Pseudo(<<"offset">>,
                   <<SrcInstr("jal", <<TxtX(1), TxtName("offset")>>)>>) @@
    "ret" :> Pseudo(<<>>,
                   <<SrcInstr("jalr", <<TxtX(0), TxtX(1), TxtNum(0)>>)>>) @@
    "li.16" :> Pseudo(<<"rd", "imm">>,
                   <<SrcInstr("addi", <<TxtName("rd"), TxtX(0), TxtName("imm")>>)>>) @@
    "li.32" :> Pseudo(<<"rd", "imm">>,
                   <<SrcInstr("lui", <<TxtName("rd"), TxtPct("hi", TxtName("imm"))>>),
                     SrcInstr("addi", <<TxtName("rd"), TxtName("rd"), TxtPct("lo", TxtName("imm"))>>)>>) @@
    "li.64" :> Pseudo(<<"rd", "imm">>,
                   <<SrcInstr("lui", <<TxtName("rd"), TxtPct("highest", TxtName("imm"))>>),
                     SrcInstr("addi", <<TxtName("rd"), TxtName("rd"), TxtPct("higher", TxtName("imm"))>>),
                     SrcInstr("slli", <<TxtName("rd"), TxtName("rd"), TxtNum(32)>>),
                     SrcInstr("addi", <<TxtName("rd"), TxtName("rd"), TxtPct("hi", TxtName("imm"))>>),
                     SrcInstr("addi", <<TxtName("rd"), TxtName("rd"), TxtPct("lo", TxtName("imm"))>>)>>) @@
    "la.16" :> Pseudo(<<"rd", "symbol">>,
                   <<SrcInstr("auipc", <<TxtName("rd"), TxtPct("pcrel_hi", TxtName("symbol"))>>),
                     SrcInstr("addi", <<TxtName("rd"), TxtName("rd"), TxtPct("pcrel_lo", TxtName("symbol"))>>)>>) @@
    "la.32" :> Pseudo(<<"rd", "symbol">>,
                   <<SrcInstr("lui", <<TxtName("rd"), TxtPct("hi", TxtName("symbol"))>>),
                     SrcInstr("addi", <<TxtName("rd"), TxtName("rd"), TxtPct("lo", TxtName("symbol"))>>)>>) @@
    "la.64" :> Pseudo(<<"rd", "symbol">>,
                   <<SrcInstr("lui", <<TxtName("rd"), TxtPct("highest", TxtName("symbol"))>>),
                     SrcInstr("addi", <<TxtName("rd"), TxtName("rd"), TxtPct("higher", TxtName("symbol"))>>),
                     SrcInstr("slli", <<TxtName("rd"), TxtName("rd"), TxtNum(32)>>),
                     SrcInstr("addi", <<TxtName("rd"), TxtName("rd"), TxtPct("hi", TxtName("symbol"))>>),
                     SrcInstr("addi", <<TxtName("rd"), TxtName("rd"), TxtPct("lo", TxtName("symbol"))>>)>>)

\* The lazy_static initialiser: every body goes through lex!(..).unwrap(), so
\* one body the lexer rejects panics the initialiser, and every later use of
\* the table panics too (the Once is poisoned).
PSEUDO_INSTRUCTIONS ==
    LET lexed == [m \in DOMAIN PSEUDO_SOURCES |-> Lexer_new(PSEUDO_SOURCES[m].body)]
    IN IF \E m \in DOMAIN PSEUDO_SOURCES : lexed[m].tag # "Ok"
       THEN [tag |-> "Panic", table |-> <<>>]
       ELSE [tag |-> "Ok",
             table |-> [m \in DOMAIN PSEUDO_SOURCES |->
                           [formals |-> PSEUDO_SOURCES[m].formals,
                            body |-> lexed[m].value]]]

---------------------------------------------------------------------------
(* src/src/asm.rs: drain_macros *)

AsmOk(value) == [tag |-> "Ok", value |-> value]
AsmErr(class) == [tag |-> class, value |-> <<>>]

IsEndm(token) == token.t = "Marker" /\ token.name = "endm"

\* tokens[index+1..].iter().position(endm) + index + 1, or 0 when there is none.
EndIndex(toks, index) ==
    IF \E j \in (index + 1)..Len(toks) : IsEndm(toks[j])
    THEN CHOOSE j \in (index + 1)..Len(toks) :
            /\ IsEndm(toks[j])
            /\ \A k \in (index + 1)..(j - 1) : ~IsEndm(toks[k])
    ELSE 0

\* The first loop: the ranges to drain, in token order, or the error / panic
\* that ends it.  pseudo is the table's state (PSEUDO_INSTRUCTIONS).
RECURSIVE find_macros(_, _, _, _)
find_macros(toks, pseudo, index, to_drain) ==
    IF index > Len(toks) THEN AsmOk(to_drain)
    ELSE IF toks[index].t # "Macro" THEN find_macros(toks, pseudo, index + 1, to_drain)
    ELSE IF toks[index].name \in DOMAIN RV_ISA THEN AsmErr("Syntax")
    ELSE IF pseudo.tag = "Panic" THEN AsmErr("Panic")
    ELSE IF toks[index].name \in DOMAIN pseudo.table THEN AsmErr("Syntax")
    ELSE IF EndIndex(toks, index) = 0 THEN AsmErr("Syntax")
    ELSE find_macros(toks, pseudo, index + 1,
                     Append(to_drain, [name |-> toks[index].name, args |-> toks[index].args,
                                       start |-> index, end |-> EndIndex(toks, index)]))

\* The sequence s without positions a..b.
RemoveRange(s, a, b) == SubSeq(s, 1, a - 1) \o SubSeq(s, b + 1, Len(s))

\* The second loop: the ranges drained from the last to the first
\* (to_drain is in token order, so sorted by start descending is its reverse).
\* Vec::drain panics when the range ends beyond the vector.
RECURSIVE drain_ranges(_, _, _, _)
drain_ranges(toks, to_drain, k, macro_map) ==
    IF k = 0 THEN AsmOk([tokens |-> toks, macros |-> macro_map])
    ELSE LET d == to_drain[k]
         IN IF d.end > Len(toks) THEN AsmErr("Panic")
            ELSE drain_ranges(RemoveRange(toks, d.start, d.end), to_drain, k - 1,
                              (d.name :> [formals |-> d.args,
                                          body |-> SubSeq(toks, d.start + 1, d.end - 1)])
                              @@ macro_map)

drain_macros(toks, pseudo) ==
    Try(find_macros(toks, pseudo, 1, <<>>),
        LAMBDA to_drain : drain_ranges(toks, to_drain, Len(to_drain), <<>>))

---------------------------------------------------------------------------
(* src/src/asm.rs: expand_code and process_expansions *)

\* exp_details.0.iter().position(|arg| arg == identifier), 0 for None.
FormalIndex(formals, identifier) ==
    IF \E i \in DOMAIN formals : formals[i] = identifier
    THEN CHOOSE i \in DOMAIN formals :
            /\ formals[i] = identifier
            /\ \A j \in 1..(i - 1) : formals[j] # identifier
    ELSE 0

IsIdentifierOperand(op) == IsRValue(op) /\ op.rv.k = "Identifier"

\* Whether get_argument_fn fails on some operand of the body: a bare
\* Identifier that names no formal ("Argument not found").
UnboundIdentifier(formals, body) ==
    \E i \in DOMAIN body :
        /\ body[i].t = "Instruction"
        /\ \E j \in DOMAIN body[i].operands :
              /\ IsIdentifierOperand(body[i].operands[j])
              /\ FormalIndex(formals, body[i].operands[j].rv.name) = 0

\* The operands of one body instruction with each bare Identifier replaced by
\* the actual at its formal's position.
substitute_operands(operands, formals, arguments) ==
    [j \in DOMAIN operands |->
        IF IsIdentifierOperand(operands[j])
        THEN arguments[FormalIndex(formals, operands[j].rv.name)]
        ELSE operands[j]]

expand_code(arguments, exp_details) ==
    IF Len(arguments) # Len(exp_details.formals) THEN AsmErr("Syntax")
    ELSE IF UnboundIdentifier(exp_details.formals, exp_details.body) THEN AsmErr("Syntax")
    ELSE AsmOk([i \in DOMAIN exp_details.body |->
                  IF exp_details.body[i].t = "Instruction"
                  THEN Instruction(exp_details.body[i].mnemonic,
                                   substitute_operands(exp_details.body[i].operands,
                                                       exp_details.formals, arguments))
                  ELSE exp_details.body[i]])

\* The width suffix the li / la rewrite selects for an i32 immediate.
li_width(v) ==
    IF -32768 <= v /\ v <= 32767 THEN "16"
    ELSE "32"      \* every other i32 lies in -2147483648..=2147483647

\* The first loop of process_expansions from token index on: li / la are
\* renamed by width, the indices of pseudo and macro invocations collected.
RECURSIVE find_expansions(_, _, _, _, _)
find_expansions(toks, macro_map, pseudo, index, indices) ==
    IF index > Len(toks) THEN AsmOk([tokens |-> toks, indices |-> indices])
    ELSE IF toks[index].t # "Instruction"
    THEN find_expansions(toks, macro_map, pseudo, index + 1, indices)
    ELSE LET tok == toks[index]
             is_li == tok.mnemonic \in {"li", "la"}
         IN IF is_li /\ Len(tok.operands) < 2 THEN AsmErr("Panic")   \* arguments[1]
            ELSE IF is_li /\ ~IsImmediateOperand(tok.operands[2]) THEN AsmErr("Syntax")
            ELSE IF pseudo.tag = "Panic" THEN AsmErr("Panic")
            ELSE LET mnemonic == IF is_li
                                 THEN tok.mnemonic \o "." \o li_width(tok.operands[2].rv.value)
                                 ELSE tok.mnemonic
                     renamed == [toks EXCEPT ![index] = Instruction(mnemonic, tok.operands)]
                 IN find_expansions(renamed, macro_map, pseudo, index + 1,
                        IF mnemonic \in DOMAIN pseudo.table \/ mnemonic \in DOMAIN macro_map
                        THEN Append(indices, index) ELSE indices)

\* The details of the invocation at a collected index: the pseudo-instruction
\* table is asked first, the macros second.
expansion_details(mnemonic, macro_map, pseudo) ==
    IF mnemonic \in DOMAIN pseudo.table THEN pseudo.table[mnemonic] ELSE macro_map[mnemonic]

\* The second loop: the invocations spliced from the last index to the first.
RECURSIVE splice_expansions(_, _, _, _, _)
splice_expansions(toks, macro_map, pseudo, indices, k) ==
    IF k = 0 THEN AsmOk(toks)
    ELSE Try(expand_code(toks[indices[k]].operands,
                         expansion_details(toks[indices[k]].mnemonic, macro_map, pseudo)),
             LAMBDA expanded_tokens :
                splice_expansions(
                    SubSeq(toks, 1, indices[k] - 1) \o expanded_tokens
                        \o SubSeq(toks, indices[k] + 1, Len(toks)),
                    macro_map, pseudo, indices, k - 1))

process_expansions(toks, macro_map, pseudo) ==
    Try(find_expansions(toks, macro_map, pseudo, 1, <<>>),
        LAMBDA found : splice_expansions(found.tokens, macro_map, pseudo,
                                         found.indices, Len(found.indices)))

---------------------------------------------------------------------------
(* src/src/asm.rs: Object and process_binary *)

\* Object::new
Object_new == [binary |-> <<>>, relocations |-> <<>>, symbols |-> <<>>]

\* The bytes of an encoder result: the word's four bytes, least significant
\* first, for an Ok.
encoded_bytes(r) ==
    [tag |-> r.tag, kind |-> r.kind,
     bytes |-> IF r.tag = "Ok" THEN ToLeBytes(r.word) ELSE <<>>]

\* encode!(mnemonic, operands): Encoder::new, the word as its four bytes.
encode_macro(mnemonic, operands) == encoded_bytes(Encoder_new(mnemonic, operands))

\* extend_from_slice mistaken for an insertion at the front.
extend_binary_at_front(obj, bytes) == [obj EXCEPT !.binary = bytes \o @]

\* object.binary.extend_from_slice(bytes)
extend_binary(obj, bytes) == [obj EXCEPT !.binary = @ \o bytes]

\* The loop of process_binary from token i on: an Instruction token is encoded
\* and appended, an encoder error ends the call (`?`), every other token is
\* skipped (`_ => {}`).
RECURSIVE process_binary_from(_, _, _)

\* The Instruction arm for token i, r being what encode! returned.
process_instruction(toks, i, obj, r) ==
    CASE r.tag = "Ok" -> process_binary_from(toks, i + 1, extend_binary(obj, r.bytes))
      [] r.tag = "Err" -> [tag |-> "Encoder", kind |-> r.kind, object |-> Object_new]
      [] OTHER -> [tag |-> "Panic", kind |-> "", object |-> Object_new]

process_binary_from(toks, i, obj) ==
    IF i > Len(toks) THEN [tag |-> "Ok", kind |-> "", object |-> obj]
    ELSE IF toks[i].t = "Instruction"
    THEN process_instruction(toks, i, obj, encode_macro(toks[i].mnemonic, toks[i].operands))
    ELSE process_binary_from(toks, i + 1, obj)

process_binary(toks) == process_binary_from(toks, 1, Object_new)

---------------------------------------------------------------------------
(* The calls the model makes *)

NoMacros == <<>>

\* How a call of Assembler::new ended: tag "Ok", or the class of the error
\* ("Lexer", "Syntax" for the expander's AssemblerErr::Syntax, "Encoder") with
\* the LexerErr / EncoderErr variant as kind, or "Panic".
Running == [tag |-> "Running", kind |-> ""]
Ended(tag, kind) == [tag |-> tag, kind |-> kind]

PipelineIdle ==
    /\ pc = "idle"
    /\ source = <<>>
    /\ macros = NoMacros

EncoderIdle ==
    /\ enc_mnemonic = ""
    /\ enc_operands = <<>>
    /\ enc_result = NoResult

Xreg(i) == OperandRValue(Register("x", i))
Freg(i) == OperandRValue(Register("f", i))
ImmOp(v) == OperandRValue(Immediate(v))
IdOp(name) == OperandRValue(Identifier(name))

\* The operands tried at each position of an operand list.
OperandsAt(i) ==
    CASE i = 1 -> {Xreg(0), Xreg(1), Xreg(MaxRegIndex), Freg(1), ImmOp(1)}
      [] i = 2 -> {Xreg(0), Xreg(1), Xreg(2), Freg(1), ImmOp(16), ImmOp(-2), IdOp("function_addr"),
                   RelocationFn("hi", Identifier("function_addr")),
                   Address(Identifier("function_addr"), Immediate(0))}
                  \cup {Address(Register("x", 2), Immediate(v)) : v \in {-8, 2047, 2048, -2049}}
      [] i = 3 -> {Xreg(0), Xreg(2), Xreg(MaxRegIndex), Freg(2), IdOp("label")}
                  \cup {ImmOp(v) : v \in {0, 16, 31, 32, 63, 64, 127, 128, 255, -1, 2048}}
      [] OTHER -> {Xreg(0)}

RECURSIVE OperandListsOfLen(_)
OperandListsOfLen(n) ==
    IF n = 0 THEN {<<>>}
    ELSE {Append(l, op) : l \in OperandListsOfLen(n - 1), op \in OperandsAt(n)}

OperandLists == UNION {OperandListsOfLen(n) : n \in 0..MaxOperands}

\* Encoder::new is public: any mnemonic string, any operand list.
MnemonicInputs == DOMAIN RV_ISA \cup {"nop"}

InitEncoder ==
    /\ PipelineIdle
    /\ tokens = <<>>
    /\ outcome = Running
    /\ object = Object_new
    /\ enc_mnemonic \in MnemonicInputs
    /\ enc_operands \in OperandLists
    /\ enc_result = NoResult

Encode ==
    /\ pc = "idle"
    /\ enc_mnemonic # ""
    /\ enc_result = NoResult
    /\ enc_result' = Encoder_new(enc_mnemonic, enc_operands)
    /\ UNCHANGED <<pc, source, tokens, macros, outcome, object, enc_mnemonic, enc_operands>>

NextEncoder == Encode

SpecEncoder == InitEncoder /\ [][NextEncoder]_vars

---------------------------------------------------------------------------
(* Assembler::new on an input text *)

\* The longest input text, in logical lines (the test's text aside).
MaxLines == 2

\* tests/asm.rs, pseudocode_expansion: the text handed to assemble!.
PseudocodeExpansionSource ==
    <<SrcMacro("mult_nop_add", <<"x", "y", "z">>),
      SrcInstr("mul", <<TxtName("x"), TxtName("y"), TxtName("z")>>),
      SrcInstr("nop", <<>>),
      SrcInstr("add", <<TxtName("x"), TxtName("x"), TxtName("z")>>),
      SrcInstr("addi", <<TxtName("x"), TxtName("x"), TxtNum(255)>>),
      SrcInstr("neg", <<TxtName("x"), TxtName("x")>>),
      SrcInstr("nop", <<>>),
      SrcEndm,
      SrcInstr("mult_nop_add", <<TxtX(0), TxtX(1), TxtX(2)>>),
      SrcInstr("nop", <<>>)>>

SourceLines ==
    {SrcLabel("start"),
     SrcData("Word", <<TxtNum(1), TxtNum(2)>>),
     SrcData("Byte", <<TxtNum(8)>>),
     SrcString("hi"),
     SrcMacro("add", <<>>),
     SrcMacro("nop", <<>>),
     SrcMacro("swap", <<"x", "y">>),
     SrcEndm,
     SrcInstr("add", <<TxtX(0), TxtX(0), TxtX(2)>>),
     SrcInstr("add", <<TxtX(MaxRegIndex), TxtX(0), TxtX(0)>>),
     SrcInstr("nop", <<>>),
     SrcInstr("mv", <<TxtX(1), TxtX(2)>>),
     SrcInstr("mv", <<TxtX(3), TxtX(4)>>),
     SrcInstr("lw", <<TxtName("a2"), TxtParen(<<-8>>, TxtEmpty)>>),
     SrcInstr("lw", <<TxtName("a2"), TxtParen(<<-8>>, TxtName("sp"))>>),
     SrcInstr("li", <<TxtName("a0")>>),
     SrcInstr("li", <<TxtName("a0"), TxtName("label")>>),
     SrcInstr("li", <<TxtName("a0"), TxtNum(256)>>),
     SrcInstr("li", <<TxtName("a0"), TxtNum(74565)>>),
     SrcInstr("li", <<TxtName("a0"), TxtBig("0x100000000")>>),
     SrcInstr("auipc", <<TxtName("t0"), TxtPct("hi", TxtName("function_addr"))>>)}

RECURSIVE SourcesOfLen(_)
SourcesOfLen(n) ==
    IF n = 0 THEN {<<>>}
    ELSE {Append(s, l) : s \in SourcesOfLen(n - 1), l \in SourceLines}

Sources == UNION {SourcesOfLen(n) : n \in 0..MaxLines} \cup {PseudocodeExpansionSource}

Init ==
    /\ pc = "lex"
    /\ source \in Sources
    /\ tokens = <<>>
    /\ macros = NoMacros
    /\ outcome = Running
    /\ object = Object_new
    /\ EncoderIdle

\* match lex!(code): the tokens, or Err(AssemblerErr::Lexer(lexer_err)).
LexReturns(r) ==
    IF r.tag = "Ok"
    THEN tokens' = r.value /\ pc' = "drain" /\ outcome' = outcome
    ELSE tokens' = tokens /\ pc' = "done" /\ outcome' = Ended("Lexer", r.kind)

Lex ==
    /\ pc = "lex"
    /\ LexReturns(Lexer_new(source))
    /\ UNCHANGED <<source, macros, object, enc_mnemonic, enc_operands, enc_result>>

\* let macros = Self::drain_macros(&mut tokens)?;
DrainMacrosReturns(r) ==
    IF r.tag = "Ok"
    THEN tokens' = r.value.tokens /\ macros' = r.value.macros
         /\ pc' = "expand" /\ outcome' = outcome
    ELSE UNCHANGED <<tokens, macros>> /\ pc' = "done" /\ outcome' = Ended(r.tag, "")

DrainMacros ==
    /\ pc = "drain"
    /\ DrainMacrosReturns(drain_macros(tokens, PSEUDO_INSTRUCTIONS))
    /\ UNCHANGED <<source, object, enc_mnemonic, enc_operands, enc_result>>

\* let t = Self::process_expansions(&mut tokens, &macros)?;
ProcessExpansionsReturns(r) ==
    IF r.tag = "Ok"
    THEN tokens' = r.value /\ pc' = "binary" /\ outcome' = outcome
    ELSE tokens' = tokens /\ pc' = "done" /\ outcome' = Ended(r.tag, "")

ProcessExpansions ==
    /\ pc = "expand"
    /\ ProcessExpansionsReturns(process_expansions(tokens, macros, PSEUDO_INSTRUCTIONS))
    /\ UNCHANGED <<source, macros, object, enc_mnemonic, enc_operands, enc_result>>

---------------------------------------------------------------------------
\* process_binary on a token stream.
BinaryTokens ==
    {Instruction("add", <<Xreg(0), Xreg(0), Xreg(2)>>),
     Instruction("mul", <<Xreg(0), Xreg(1), Xreg(2)>>),
     Instruction("jal", <<Xreg(1), ImmOp(-2)>>),
     Instruction("nop", <<>>),
     Instruction("add", <<Xreg(0), Xreg(0)>>),
     Instruction("auipc", <<Xreg(5), RelocationFn("hi", Identifier("function_addr"))>>),
     Instruction("beq", <<Xreg(10), Xreg(0), IdOp("label")>>),
     Label("start"), Label("loop"),
     DataArray("Byte", <<Immediate(8)>>),
     DataArray("Half", <<Immediate(258)>>),
     DataArray("Word", <<Immediate(1), Immediate(2)>>),
     DataArray("Dword", <<Immediate(1)>>),
     StringData("hi"),
     Section("text", {"EXECUTE"}, 2)}

RECURSIVE TokenStreamsOfLen(_)
TokenStreamsOfLen(n) ==
    IF n = 0 THEN {<<>>}
    ELSE {Append(s, t) : s \in TokenStreamsOfLen(n - 1), t \in BinaryTokens}

TokenStreams == UNION {TokenStreamsOfLen(n) : n \in 0..MaxTokens}

InitBinary ==
    /\ pc = "binary"
    /\ source = <<>>
    /\ macros = NoMacros
    /\ tokens \in TokenStreams
    /\ outcome = Running
    /\ object = Object_new
    /\ EncoderIdle

\* Assembler::new, its last stage: object: Self::process_binary(&t)?
ProcessBinaryReturns(r) ==
    outcome' = Ended(r.tag, r.kind) /\ object' = r.object /\ pc' = "done"

ProcessBinary ==
    /\ pc = "binary"
    /\ ProcessBinaryReturns(process_binary(tokens))
    /\ UNCHANGED <<source, tokens, macros, enc_mnemonic, enc_operands, enc_result>>

NextBinary == ProcessBinary

SpecBinary == InitBinary /\ [][NextBinary]_vars

Next == Lex \/ DrainMacros \/ ProcessExpansions \/ ProcessBinary

Spec == Init /\ [][Next]_vars

---------------------------------------------------------------------------
(* Lexer::new (lex!) on one-line texts *)

\* The longest quoted flag string of a `.section` line.
MaxFlagLetters == 2

\* The one-line texts: every register spelling of the alias table and of
\* REGISTER_REGEX, bare and as an Address base; x and f registers with
\* indexes in and out of range; every name after a '%'; the bare directive
\* words; `.section` with every flag string over a, w, x, m, s, g, t and z.
LexerLines ==
    LET AliasInputs == DOMAIN CONVENTIONAL_TO_ABI \cup REGISTER_REGEX_names
        IndexInputs == {0, 31, MaxRegIndex, 99}
        RelocationFnInputs == RELOCATION_REGEX_names \cup {"higher", "highest", "got"}
        FlagStrings == UNION {[1..n -> DOMAIN SECTION_FLAG_LETTERS \cup {"z"}] :
                                 n \in 0..MaxFlagLetters}
    IN {SrcInstr("mv", <<TxtName(a), TxtX(0)>>) : a \in AliasInputs}
       \cup {SrcInstr("lw", <<TxtX(1), TxtParen(<<-8>>, TxtName(a))>>) : a \in AliasInputs}
       \cup {SrcInstr("mv", <<TxtX(n), TxtF(m)>>) : n \in IndexInputs, m \in IndexInputs}
       \cup {SrcInstr("lw", <<TxtX(1), TxtParen(<<0>>, TxtX(n))>>) : n \in IndexInputs}
       \cup {SrcInstr("auipc", <<TxtName("t0"), TxtPct(fn, TxtName("function_addr"))>>) :
                fn \in RelocationFnInputs}
       \cup {SrcBare(name) : name \in {"text", "init", "fini", "bss", "sbss", "rodata",
                                        "data", "sdata", "endm", "stack"}}
       \cup {SrcSection(".mysec", <<>>)}
       \cup {SrcSection(".mysec", <<letters>>) : letters \in FlagStrings}

InitLexer ==
    /\ pc = "lex"
    /\ \E line \in LexerLines : source = <<line>>
    /\ tokens = <<>>
    /\ macros = NoMacros
    /\ outcome = Running
    /\ object = Object_new
    /\ EncoderIdle

\* lex!(code) alone: pc = "drain" with the tokens after Ok, "done" after Err.
NextLexer == Lex

SpecLexer == InitLexer /\ [][NextLexer]_vars

---------------------------------------------------------------------------
(* expand_code on one invocation of a macro *)

\* The longest macro body, in tokens, and the most formals of a macro.
MaxBody == 2
MaxFormals == 2

\* Body tokens: operands naming a formal, naming none, and a formal's name
\* inside a RelocationFn, an Address and a data array.
BodyTokens ==
    {Instruction("add", <<IdOp("x"), IdOp("y"), Xreg(3)>>),
     Instruction("addi", <<IdOp("x"), IdOp("x"), ImmOp(1)>>),
     Instruction("lui", <<IdOp("x"), RelocationFn("hi", Identifier("x"))>>),
     Instruction("lw", <<Xreg(2), Address(Identifier("x"), Immediate(0))>>),
     Instruction("j", <<IdOp("loop")>>),
     Label("loop"),
     DataArray("Word", <<Identifier("x")>>)}

\* The stream holds one invocation of the macro "m"; the dictionary holds m.
InitExpand ==
    /\ pc = "expand_code"
    /\ source = <<>>
    /\ \E n \in 0..MaxFormals :
          \E arguments \in [1..n -> {Xreg(1), ImmOp(5), IdOp("loop")}] :
             tokens = <<Instruction("m", arguments)>>
    /\ \E n \in 0..MaxFormals, k \in 0..MaxBody :
          \E body \in [1..k -> BodyTokens] :
             macros = ("m" :> Pseudo(SubSeq(<<"x", "y", "z">>, 1, n), body))
    /\ outcome = Running
    /\ object = Object_new
    /\ EncoderIdle

\* let expanded_tokens = Self::expand_code(arguments.clone(), &mut exp_details)?;
\* tokens.splice(index..=index, expanded_tokens.iter().cloned());
ExpandCodeReturns(r) ==
    IF r.tag = "Ok"
    THEN tokens' = r.value /\ pc' = "spliced" /\ outcome' = outcome
    ELSE tokens' = tokens /\ pc' = "done" /\ outcome' = Ended(r.tag, "")

ExpandCode ==
    /\ pc = "expand_code"
    /\ ExpandCodeReturns(expand_code(tokens[1].operands, macros[tokens[1].mnemonic]))
    /\ UNCHANGED <<source, macros, object, enc_mnemonic, enc_operands, enc_result>>

NextExpand == ExpandCode

SpecExpand == InitExpand /\ [][NextExpand]_vars

---------------------------------------------------------------------------
(* The properties *)

IsInstructionToken(tok) == tok.t = "Instruction"

\* The bytes an emittable token stands for: four per instruction, a typed
\* array's values at 1, 2, 4, 8 bytes each, a string's text and its NUL.
EmittableSize(tok) ==
    CASE tok.t = "Instruction" -> 4
      [] tok.t = "Byte" -> Len(tok.values)
      [] tok.t = "Half" -> 2 * Len(tok.values)
      [] tok.t = "Word" -> 4 * Len(tok.values)
      [] tok.t = "Dword" -> 8 * Len(tok.values)
      [] tok.t = "String" -> Len(tok.text) + 1
      [] OTHER -> 0

RECURSIVE EmittedBefore(_, _)
EmittedBefore(toks, i) ==
    IF i <= 1 THEN 0 ELSE EmittedBefore(toks, i - 1) + EmittableSize(toks[i - 1])

\* tests/asm.rs, pseudocode_expansion: the expected words 0x02208033,
\* 0x00000013, 0x00200033, 0x0ff00013, 0x40000033, 0x00000013, 0x00000013 as
\* their little-endian bytes.
PseudocodeExpansionBytes ==
    <<51, 128, 32, 2>> \o <<19, 0, 0, 0>> \o <<51, 0, 32, 0>> \o <<19, 0, 240, 15>>
    \o <<51, 0, 0, 64>> \o <<19, 0, 0, 0>> \o <<19, 0, 0, 0>>

\* C1: assembling the macro-and-pseudo-instruction text of the
\* pseudocode_expansion test succeeds and the binary is the seven expected
\* words, each least significant byte first.
C1_MacroAndPseudoWords ==
    (source = PseudocodeExpansionSource /\ pc = "done") =>
        (outcome.tag = "Ok" /\ object.binary = PseudocodeExpansionBytes)

C3_LabelsBoundToOffsets ==
    (pc = "done" /\ outcome.tag = "Ok") =>
        /\ \A i \in DOMAIN tokens :
              tokens[i].t = "Label" =>
                 /\ tokens[i].name \in DOMAIN object.symbols
                 /\ object.symbols[tokens[i].name] = EmittedBefore(tokens, i)
        /\ \A i, j \in DOMAIN tokens :
              (tokens[i].t = "Label" /\ tokens[j].t = "Label" /\ i # j)
                 => tokens[i].name # tokens[j].name

\* C4: after a successful assembly the binary holds the bytes of every
\* emittable of the stream, the data emittables included: its length is the
\* sum of their sizes.
C4_DataEmittablesContribute ==
    (pc = "done" /\ outcome.tag = "Ok") =>
        Len(object.binary) = EmittedBefore(tokens, Len(tokens) + 1)

\* Whether an operand is symbolic: a bare Identifier or a relocation function.
IsSymbolicOperand(op) ==
    \/ IsRValue(op) /\ op.rv.k = "Identifier"
    \/ op.o = "RelocationFn"

\* C5: a U-type instruction, a jal or a branch whose immediate operand is
\* symbolic (its other operands being x registers) encodes successfully, with
\* every bit of the word's immediate field zero.
C5_SymbolicImmediateEncodesZero ==
    (enc_result # NoResult /\ enc_mnemonic \in DOMAIN RV_ISA) =>
        LET opcode == RV_ISA[enc_mnemonic].opcode
            n == Len(enc_operands)
        IN /\ (/\ opcode \in {"Lui", "AuiPC", "Jal"}
               /\ n = 2
               /\ IsRegisterOperand(enc_operands[1])
               /\ IsSymbolicOperand(enc_operands[2]))
                  => (enc_result.tag = "Ok" /\ enc_result.word \cap (12..31) = {})
           /\ (/\ opcode = "Branch"
               /\ n = 3
               /\ IsRegisterOperand(enc_operands[1])
               /\ IsRegisterOperand(enc_operands[2])
               /\ IsSymbolicOperand(enc_operands[3]))
                  => (/\ enc_result.tag = "Ok"
                      /\ enc_result.word \cap ((7..11) \cup (25..31)) = {})

\* The malformed operand "-8()" on some line of the text.
HasEmptyParenOperand(code) ==
    \E i \in DOMAIN code :
        /\ code[i].l = "instruction"
        /\ \E j \in DOMAIN code[i].operands :
              code[i].operands[j] = TxtParen(<<-8>>, TxtEmpty)

\* C6: an assembly ends with an Object or with a Lexer, Syntax or Encoder
\* error and never panics; no Object is kept with an error; the stages run in
\* the order lex, drain, expand, encode and none runs after a failure; a text
\* with the operand "-8()" ends with LexerErr::Syntax and no tokens.
C6_ObjectOrErrorNeverPanic ==
    /\ outcome.tag \in {"Running", "Ok", "Lexer", "Syntax", "Encoder"}
    /\ (outcome.tag # "Ok" => object = Object_new)
    /\ (outcome.tag # "Running" <=> pc = "done")
    /\ (HasEmptyParenOperand(source) /\ pc # "lex")
          => (outcome = Ended("Lexer", "Syntax") /\ tokens = <<>>)

\* C7: the low 7 bits of every word the encoder returns are the opcode of the
\* mnemonic's table entry.
C7_LowBitsAreOpcode ==
    enc_result.tag = "Ok" =>
        Field(enc_result.word, 6, 0) = Opcode[RV_ISA[enc_mnemonic].opcode]

\* C8: for a mnemonic of the Op, Op32 and Op64 groups and three Register
\* operands the encoder accepts, bits 31..25 are the table's funct7, bits
\* 14..12 its funct3, and bits 24..20, 19..15, 11..7 are rs2, rs1, rd.
C8_RTypeFieldsMatchTable ==
    (/\ enc_result.tag = "Ok"
     /\ RV_ISA[enc_mnemonic].opcode \in {"Op", "Op32", "Op64"}
     /\ \A i \in 1..3 : IsRegisterOperand(enc_operands[i]))
        => /\ Field(enc_result.word, 31, 25) = Unwrap(RV_ISA[enc_mnemonic].funct7)
           /\ Field(enc_result.word, 14, 12) = Unwrap(RV_ISA[enc_mnemonic].funct3)
           /\ Field(enc_result.word, 24, 20) = enc_operands[3].rv.index
           /\ Field(enc_result.word, 19, 15) = enc_operands[2].rv.index
           /\ Field(enc_result.word, 11, 7) = enc_operands[1].rv.index

\* The shamt width the architecture gives a shift of each base ISA.
ArchShamtWidth(isa) ==
    CASE isa = "RV32I" -> 5
      [] isa = "RV64I" -> 6
      [] OTHER -> 7

\* C9: a shift-immediate instruction (register, register, immediate) whose
\* shamt lies outside [0, 2^w - 1], w being 5, 6, 7 for the 32-, 64-, 128-bit
\* shifts, is rejected with EncoderErr::Operands.
C9_ShamtWithinWidth ==
    (/\ enc_result # NoResult
     /\ enc_mnemonic \in DOMAIN RV_ISA
     /\ RV_ISA[enc_mnemonic].shift # <<>>
     /\ Len(enc_operands) = 3
     /\ IsRegisterOperand(enc_operands[1])
     /\ IsRegisterOperand(enc_operands[2])
     /\ IsImmediateOperand(enc_operands[3]))
        => LET shamt == enc_operands[3].rv.value
               w == ArchShamtWidth(RV_ISA[enc_mnemonic].isa)
           IN (shamt < 0 \/ shamt >= 2^w) => enc_result = EncErr("Operands")

\* C10: the encoder never panics; an Op-group instruction with fewer than three
\* operands, a non-register operand or registers of different banks is
\* rejected with EncoderErr::Operands, and so is a load, store or jalr whose
\* offset lies outside [-2048, 2047].
C10_OperandViolationsRejected ==
    (enc_result # NoResult /\ enc_mnemonic \in DOMAIN RV_ISA) =>
        LET opcode == RV_ISA[enc_mnemonic].opcode
            n == Len(enc_operands)
        IN /\ enc_result.tag # "Panic"
           /\ (/\ opcode \in {"Op", "Op32", "Op64"}
               /\ \/ n < 3
                  \/ \E i \in 1..n : ~IsRegisterOperand(enc_operands[i])
                  \/ \E i, j \in 1..n :
                        /\ IsRegisterOperand(enc_operands[i])
                        /\ IsRegisterOperand(enc_operands[j])
                        /\ enc_operands[i].rv.bank # enc_operands[j].rv.bank)
                 => enc_result = EncErr("Operands")
           /\ (/\ opcode \in {"Load", "LoadFp", "Store", "StoreFp", "Jalr"}
               /\ n = 2
               /\ IsRegisterOperand(enc_operands[1])
               /\ IsRegImmAddress(enc_operands[2])
               /\ (enc_operands[2].offset.value < -2048 \/ enc_operands[2].offset.value > 2047))
                 => enc_result = EncErr("Operands")


---------------------------------------------------------------------------
(* Macro draining and expansion *)

\* A `.macro` line whose name is an ISA mnemonic or a pseudo-instruction key.
IsReservedMacroLine(line) ==
    /\ line.l = "macro"
    /\ (line.name \in DOMAIN RV_ISA \/ line.name \in DOMAIN PSEUDO_SOURCES)

LexedOk == pc # "lex" /\ outcome.tag # "Lexer"

\* C11: a text that lexes and holds a `.macro` named after an ISA mnemonic or
\* a pseudo-instruction (`add`, `nop`) ends in the expander's Syntax error
\* with no Object, whatever else the text holds.
C11_ReservedMacroNameIsSyntaxError ==
    (pc = "done" /\ LexedOk /\ \E i \in DOMAIN source : IsReservedMacroLine(source[i]))
        => (outcome = Ended("Syntax", "") /\ object = Object_new)

\* Line i opens a macro that no `.endm` of its own closes: fewer `.endm`
\* lines follow it than `.macro` lines from i on.
IsUnclosedMacroAt(code, i) ==
    /\ code[i].l = "macro"
    /\ Cardinality({j \in DOMAIN code : j > i /\ code[j].l = "endm"})
         < Cardinality({j \in DOMAIN code : j >= i /\ code[j].l = "macro"})

\* C12: a text that lexes and holds a `.macro` not closed by its own `.endm`
\* ends in the expander's Syntax error: never a panic, never a drained stream.
C12_UnclosedMacroIsSyntaxError ==
    (pc = "done" /\ LexedOk /\ \E i \in DOMAIN source : IsUnclosedMacroAt(source, i))
        => outcome = Ended("Syntax", "")

\* The number of formals an invocation of a pseudo-instruction must match
\* (`li` and `la` stand for their width-suffixed entries, two formals each).
PseudoArity(mnemonic) ==
    IF mnemonic \in {"li", "la"} THEN Len(PSEUDO_SOURCES["li.16"].formals)
    ELSE Len(PSEUDO_SOURCES[mnemonic].formals)

IsWrongArityInvocation(line) ==
    /\ line.l = "instruction"
    /\ line.mnemonic \in DOMAIN PSEUDO_SOURCES \cup {"li", "la"}
    /\ Len(line.operands) # PseudoArity(line.mnemonic)

\* C13: a text without macros that lexes and invokes a pseudo-instruction
\* (li and la included) with the wrong number of actuals ends in the
\* expander's Syntax error and nothing is spliced.
C13_WrongArityIsSyntaxError ==
    (/\ pc = "done" /\ LexedOk
     /\ \A i \in DOMAIN source : source[i].l = "instruction"
     /\ \E i \in DOMAIN source : IsWrongArityInvocation(source[i]))
        => (outcome = Ended("Syntax", "") /\ object = Object_new)

\* The text is the single line `li rd, v` with v a numeral.
IsSingleLi(code) ==
    /\ Len(code) = 1
    /\ code[1].l = "instruction"
    /\ code[1].mnemonic = "li"
    /\ Len(code[1].operands) = 2
    /\ code[1].operands[2].c \in {"num", "big"}

Fits16(v) == -32768 <= v /\ v <= 32767

\* C14: `li rd, v` with v in the signed 16-bit range (`li a0, 0x100`) is
\* renamed to li.16 and leaves the expander as exactly `addi rd, x0, v`.
C14_Li16ExpandsToAddi ==
    (/\ pc \in {"binary", "done"}
     /\ IsSingleLi(source)
     /\ source[1].operands[2].c = "num"
     /\ Fits16(source[1].operands[2].v))
        => \E rd \in 0..31 :
             tokens = <<Instruction("addi",
                          <<Xreg(rd), Xreg(0), ImmOp(source[1].operands[2].v)>>)>>

\* C15: `li rd, v` with v beyond 16 bits (`li a0, 0x12345`) leaves the
\* expander as `lui rd, %hi(v)`, `addi rd, rd, %lo(v)`; with v beyond the
\* signed 32-bit range (0x100000000) it leaves it as the five instructions
\* of li.64.
C15_LiWideExpansions ==
    (/\ pc \in {"binary", "done"}
     /\ IsSingleLi(source)
     /\ ~(source[1].operands[2].c = "num" /\ Fits16(source[1].operands[2].v)))
        => \E rd \in 0..31 :
             IF source[1].operands[2].c = "num"
             THEN tokens =
                    <<Instruction("lui", <<Xreg(rd),
                         RelocationFn("hi", Immediate(source[1].operands[2].v))>>),
                      Instruction("addi", <<Xreg(rd), Xreg(rd),
                         RelocationFn("lo", Immediate(source[1].operands[2].v))>>)>>
             ELSE /\ Len(tokens) = 5
                  /\ tokens[1].t = "Instruction" /\ tokens[1].mnemonic = "lui"
                  /\ tokens[5].t = "Instruction" /\ tokens[5].mnemonic = "addi"

---------------------------------------------------------------------------
(* The lexer *)

\* The RValues of an operand: the operand itself, or an Address's base.
RValuesOfOperand(op) ==
    CASE op.o = "RValue" -> {op.rv}
      [] op.o = "Address" -> {op.base, op.offset}
      [] OTHER -> {op.sym}

RValuesOfToken(tok) ==
    IF IsInstructionToken(tok)
    THEN UNION {RValuesOfOperand(tok.operands[j]) : j \in DOMAIN tok.operands}
    ELSE {}

RegistersOfTokens ==
    {rv \in UNION {RValuesOfToken(tokens[i]) : i \in DOMAIN tokens} : rv.k = "Register"}

\* C16: every Register in a token the lexer returned, bare or the base of an
\* Address, has bank 'x' or 'f' and an index in 0..31 (x32 and f99 never
\* become Register tokens).
C16_RegisterIndexInRange ==
    \A reg \in RegistersOfTokens : reg.bank \in {"x", "f"} /\ reg.index \in 0..31

\* The text is one instruction line with the operands `a, x0`, a an ABI alias.
StartsWithAlias(code, a) ==
    /\ Len(code) = 1
    /\ code[1].l = "instruction"
    /\ code[1].operands = <<TxtName(a), TxtX(0)>>

\* C17: every ABI alias of the alias table (zero, ra, sp, gp, tp, t0..t6,
\* s0..s11, fp, a0..a7, ft*, fs*, fa*) lexes to the Register of its canonical
\* name, never to an Identifier or an error (a2 -> x12, s5 -> x21, fp -> x8).
C17_AliasLexesToCanonicalRegister ==
    \A a \in DOMAIN CONVENTIONAL_TO_ABI :
        (pc # "lex" /\ StartsWithAlias(source, a))
            => /\ pc = "drain"
               /\ tokens[1].operands[1] =
                    OperandRValue(Register(CONVENTIONAL_TO_ABI[a].c, CONVENTIONAL_TO_ABI[a].n))

\* The relocation functions of the RISC-V assembly language, without the '%'.
RelocationFunctions ==
    {"hi", "lo", "higher", "highest", "pcrel_hi", "pcrel_lo", "tprel_hi", "tprel_lo", "add"}

\* C18: each of %hi, %lo, %higher, %highest, %pcrel_hi, %pcrel_lo,
\* %tprel_hi, %tprel_lo, %add applied to an identifier lexes to the operand
\* RelocationFn(function name, Identifier(symbol)); `auipc t0,
\* %hi(function_addr)` gives RelocationFn("%hi", Identifier("function_addr")).
C18_RelocationFunctionsLex ==
    \A fn \in RelocationFunctions :
        (/\ pc # "lex"
         /\ source = <<SrcInstr("auipc",
                          <<TxtName("t0"), TxtPct(fn, TxtName("function_addr"))>>)>>)
            => /\ pc = "drain"
               /\ tokens[1].operands[2] =
                    RelocationFn("%" \o fn, Identifier("function_addr"))

\* The characters of a `.section` line's quoted string.
LettersOf(line) == {line.quoted[1][k] : k \in DOMAIN line.quoted[1]}

\* The token of a one-line text is a section with exactly these flags.
LexedSectionWith(flags) ==
    /\ pc = "drain"
    /\ Len(tokens) = 1
    /\ tokens[1].t = "Section"
    /\ tokens[1].flags = flags

\* C19: .text, .init, .fini lex to a section with {EXECUTE}; .bss, .sbss,
\* .rodata with {ALLOCATE}; .data, .sdata with {ALLOCATE, WRITE}; `.section
\* NAME, "FLAGS"` with exactly the flags its letters name (a ALLOCATE, w WRITE,
\* x EXECUTE, m MERGE, s STRING, g GROUP, t TLS), and with any other letter
\* the lexer returns a parsing error and no token.
C19_SectionFlags ==
    (pc # "lex" /\ Len(source) = 1) =>
        LET line == source[1] IN
        /\ (line.l = "bare" /\ line.name \in {"text", "init", "fini"})
              => LexedSectionWith({"EXECUTE"})
        /\ (line.l = "bare" /\ line.name \in {"bss", "sbss", "rodata"})
              => LexedSectionWith({"ALLOCATE"})
        /\ (line.l = "bare" /\ line.name \in {"data", "sdata"})
              => LexedSectionWith({"ALLOCATE", "WRITE"})
        /\ (line.l = "section" /\ line.quoted # <<>>)
              => IF LettersOf(line) \subseteq {"a", "w", "x", "m", "s", "g", "t"}
                 THEN LexedSectionWith(
                        {fl \in {"ALLOCATE", "WRITE", "EXECUTE", "MERGE", "STRING", "GROUP", "TLS"} :
                            \/ fl = "ALLOCATE" /\ "a" \in LettersOf(line)
                            \/ fl = "WRITE"    /\ "w" \in LettersOf(line)
                            \/ fl = "EXECUTE"  /\ "x" \in LettersOf(line)
                            \/ fl = "MERGE"    /\ "m" \in LettersOf(line)
                            \/ fl = "STRING"   /\ "s" \in LettersOf(line)
                            \/ fl = "GROUP"    /\ "g" \in LettersOf(line)
                            \/ fl = "TLS"      /\ "t" \in LettersOf(line)})
                 ELSE outcome = Ended("Lexer", "Parsing") /\ tokens = <<>>

\* `.section .mysec, "ax"` was lexed to a section with ALLOCATE and EXECUTE.
C19_TwoLetterSectionLexed ==
    /\ pc = "drain"
    /\ source = <<SrcSection(".mysec", <<(<<"a", "x">>)>>)>>
    /\ LexedSectionWith({"ALLOCATE", "EXECUTE"})

---------------------------------------------------------------------------
(* Substitution *)

\* An operand after substitution as the claim has it: a bare Identifier that
\* equals a formal becomes the actual at that position, anything else stays.
SubstitutedOperand(op, formals, arguments) ==
    IF IsIdentifierOperand(op) /\ \E i \in DOMAIN formals : formals[i] = op.rv.name
    THEN arguments[CHOOSE i \in DOMAIN formals : formals[i] = op.rv.name]
    ELSE op

SubstitutedToken(tok, formals, arguments) ==
    IF IsInstructionToken(tok)
    THEN Instruction(tok.mnemonic,
            [j \in DOMAIN tok.operands |->
                SubstitutedOperand(tok.operands[j], formals, arguments)])
    ELSE tok

\* C20: expanding a body with as many actuals as formals replaces every bare
\* Identifier operand equal to formal f_i by actual a_i and leaves every other
\* operand (Register, Immediate, Address, RelocationFn, a bare Identifier
\* equal to no formal) and every non-instruction token unchanged.
C20_SubstitutionByPosition ==
    [][(/\ pc = "expand_code"
        /\ Len(tokens[1].operands) = Len(macros[tokens[1].mnemonic].formals))
          => /\ pc' = "spliced"
             /\ tokens' = [i \in DOMAIN macros[tokens[1].mnemonic].body |->
                             SubstitutedToken(macros[tokens[1].mnemonic].body[i],
                                              macros[tokens[1].mnemonic].formals,
                                              tokens[1].operands)]]_vars

---------------------------------------------------------------------------
(* The expander's passes *)

\* The mnemonics of a stream of instruction tokens, in order.
MnemonicsOf(toks) == [i \in DOMAIN toks |-> toks[i].mnemonic]

IsPlainTextWithNop(code) ==
    /\ \A i \in DOMAIN code :
          \/ code[i].l \in {"label", "data", "string"}
          \/ code[i].l = "instruction" /\ code[i].mnemonic \in DOMAIN RV_ISA
          \/ code[i] = SrcInstr("nop", <<>>)
    /\ \E i \in DOMAIN code : code[i] = SrcInstr("nop", <<>>)

\* The stream with every `nop` invocation replaced in place by the body of
\* nop, `addi zero, zero, 0`, and every other token kept.
RECURSIVE NopsReplaced(_)
NopsReplaced(toks) ==
    IF toks = <<>> THEN <<>>
    ELSE (IF toks[1] = Instruction("nop", <<>>)
          THEN <<Instruction("addi", <<Xreg(0), Xreg(0), ImmOp(0)>>)>>
          ELSE <<toks[1]>>) \o NopsReplaced(Tail(toks))

IsClosedEmptyMacro(code) ==
    /\ Len(code) = 2
    /\ code[1].l = "macro" /\ ~IsReservedMacroLine(code[1])
    /\ code[2].l = "endm"

\* C23: draining a stream whose macros are closed by their own `.endm` removes
\* the tokens from each `.macro` to its `.endm`, leaves no Macro directive and
\* records each macro's formals and body under its name.
C23_ClosedMacrosDrained ==
    (pc \notin {"lex", "drain"} /\ IsClosedEmptyMacro(source))
        => /\ tokens = <<>>
           /\ macros = (source[1].name :> Pseudo(source[1].formals, <<>>))

\* The text is two invocations of the pseudo-instruction mv with x registers.
IsTwoMvText(code) ==
    /\ Len(code) = 2
    /\ \A i \in DOMAIN code :
          /\ code[i].l = "instruction" /\ code[i].mnemonic = "mv"
          /\ Len(code[i].operands) = 2
          /\ \A j \in 1..2 : code[i].operands[j].c = "x"

---------------------------------------------------------------------------
(* Encodings by format *)

\* Bit k of the two's complement of an i32, as 0 or 1.
ImmBit(v, k) == IF k \in U32(v) THEN 1 ELSE 0

IsArchRegister(op) == IsRegisterOperand(op) /\ op.rv.index \in 0..31

\* C25: a branch with registers rs1, rs2 and a literal offset imm encodes to
\* the SB layout: bit 31 = imm[12], bits 30..25 = imm[10:5], bits 24..20 =
\* rs2, bits 19..15 = rs1, bits 14..12 = funct3, bits 11..8 = imm[4:1],
\* bit 7 = imm[11], bits 6..0 = opcode.
C25_BranchLayout ==
    (/\ enc_result # NoResult
     /\ enc_mnemonic \in DOMAIN RV_ISA
     /\ RV_ISA[enc_mnemonic].opcode = "Branch"
     /\ Len(enc_operands) = 3
     /\ IsArchRegister(enc_operands[1]) /\ IsArchRegister(enc_operands[2])
     /\ IsImmediateOperand(enc_operands[3]))
        => LET imm == enc_operands[3].rv.value
               w == enc_result.word
           IN /\ enc_result.tag = "Ok"
              /\ Field(w, 31, 31) = ImmBit(imm, 12)
              /\ \A k \in 5..10 : Field(w, 20 + k, 20 + k) = ImmBit(imm, k)
              /\ Field(w, 24, 20) = enc_operands[2].rv.index
              /\ Field(w, 19, 15) = enc_operands[1].rv.index
              /\ Field(w, 14, 12) = Unwrap(RV_ISA[enc_mnemonic].funct3)
              /\ \A k \in 1..4 : Field(w, 7 + k, 7 + k) = ImmBit(imm, k)
              /\ Field(w, 7, 7) = ImmBit(imm, 11)
              /\ Field(w, 6, 0) = Opcode[RV_ISA[enc_mnemonic].opcode]

CsrRegisterForms == {"csrrw", "csrrs", "csrrc"}
CsrImmediateForms == {"csrrwi", "csrrsi", "csrrci"}

\* Operands (rd, csr, source) of the shape the mnemonic's form takes.
IsCsrInvocation(mnemonic, operands) ==
    /\ mnemonic \in CsrRegisterForms \cup CsrImmediateForms
    /\ Len(operands) = 3
    /\ IsArchRegister(operands[1])
    /\ IsImmediateOperand(operands[2]) /\ operands[2].rv.value \in 0..4095
    /\ IF mnemonic \in CsrRegisterForms THEN IsArchRegister(operands[3])
       ELSE IsImmediateOperand(operands[3]) /\ operands[3].rv.value \in 0..31

\* C26: a CSR instruction (rd, csr, source) encodes to csr in bits 31..20,
\* the source register's index or the 5-bit immediate of the *I forms in bits
\* 19..15, funct3 in bits 14..12, rd in bits 11..7 and the System opcode;
\* ecall and ebreak encode to funct12 in bits 31..20 and zero in bits 19..7.
C26_SystemLayout ==
    /\ (enc_result # NoResult /\ IsCsrInvocation(enc_mnemonic, enc_operands))
          => /\ enc_result.tag = "Ok"
             /\ Field(enc_result.word, 31, 20) = enc_operands[2].rv.value
             /\ Field(enc_result.word, 19, 15) =
                   (IF enc_mnemonic \in CsrRegisterForms
                    THEN enc_operands[3].rv.index ELSE enc_operands[3].rv.value)
             /\ Field(enc_result.word, 14, 12) = Unwrap(RV_ISA[enc_mnemonic].funct3)
             /\ Field(enc_result.word, 11, 7) = enc_operands[1].rv.index
             /\ Field(enc_result.word, 6, 0) = Opcode["System"]
    /\ (enc_result # NoResult /\ enc_mnemonic \in {"ecall", "ebreak"} /\ enc_operands = <<>>)
          => /\ enc_result.tag = "Ok"
             /\ Field(enc_result.word, 31, 20) = Unwrap(RV_ISA[enc_mnemonic].funct12)
             /\ Field(enc_result.word, 19, 7) = 0
             /\ Field(enc_result.word, 6, 0) = Opcode["System"]

\* Register operands for an OpFp mnemonic: three, or two when the descriptor
\* fixes the rs2 field.
IsFpInvocation(mnemonic, operands) ==
    /\ mnemonic \in DOMAIN RV_ISA
    /\ RV_ISA[mnemonic].opcode = "OpFp"
    /\ \/ Len(operands) = 3
       \/ Len(operands) = 2 /\ RV_ISA[mnemonic].rs2 # <<>>
    /\ \A i \in DOMAIN operands : IsArchRegister(operands[i])

\* C27: an OpFp instruction encodes to funct5 in bits 31..27, the descriptor's
\* float format in bits 26..25, rs2 (the descriptor's fixed value when it has
\* one, and then no third operand is needed) in bits 24..20, rs1 in bits
\* 19..15, frm = 0 in bits 14..12, rd in bits 11..7 and the OpFp opcode.
C27_OpFpLayout ==
    (enc_result # NoResult /\ IsFpInvocation(enc_mnemonic, enc_operands))
        => /\ enc_result.tag = "Ok"
           /\ Field(enc_result.word, 31, 27) = Unwrap(RV_ISA[enc_mnemonic].funct5)
           /\ Field(enc_result.word, 26, 25) = Unwrap(RV_ISA[enc_mnemonic].float_format)
           /\ Field(enc_result.word, 24, 20) =
                 (IF RV_ISA[enc_mnemonic].rs2 # <<>> THEN Unwrap(RV_ISA[enc_mnemonic].rs2)
                  ELSE enc_operands[3].rv.index)
           /\ Field(enc_result.word, 19, 15) = enc_operands[2].rv.index
           /\ Field(enc_result.word, 14, 12) = 0
           /\ Field(enc_result.word, 11, 7) = enc_operands[1].rv.index
           /\ Field(enc_result.word, 6, 0) = Opcode["OpFp"]

\* A text with at least one instruction line, no `.macro` line and no `li`
\* line (an `li` with fewer than two operands fails on its own).
HasInstructionOnly(code) ==
    /\ \E i \in DOMAIN code : code[i].l = "instruction"
    /\ \A i \in DOMAIN code :
          /\ code[i].l # "macro"
          /\ code[i].l = "instruction" => code[i].mnemonic # "li"

\* C28: every body source of the pseudo-instruction table lexes without a
\* LexerErr, so the table initialises, and the assembly of a text with at least
\* one instruction that the lexer accepted does not end in a panic at the first
\* lookup of a mnemonic.
C28_PseudoTableInitialises ==
    (pc = "done" /\ LexedOk /\ HasInstructionOnly(source))
        => /\ \A m \in DOMAIN PSEUDO_SOURCES :
                 Lexer_new(PSEUDO_SOURCES[m].body).tag = "Ok"
           /\ PSEUDO_INSTRUCTIONS.tag = "Ok"
           /\ outcome.tag # "Panic"

\* An actual of the intended shape for a formal of the pseudo-instruction
\* table: an immediate for imm, offset and symbol, a register otherwise.
ActualFor(formal) ==
    IF formal \in {"imm", "offset", "symbol"} THEN ImmOp(16) ELSE Xreg(0)

\* The instructions of the bodies of the table's entries (those whose source
\* lexes), expanded with ActualFor.
ExpandedPseudoBodies ==
    UNION { LET lexed == Lexer_new(PSEUDO_SOURCES[m].body)
                formals == PSEUDO_SOURCES[m].formals
                r == expand_code([j \in DOMAIN formals |-> ActualFor(formals[j])],
                                 [formals |-> formals, body |-> lexed.value])
            IN IF lexed.tag = "Ok" /\ r.tag = "Ok"
               THEN {r.value[i] : i \in DOMAIN r.value}
               ELSE {}
          : m \in DOMAIN PSEUDO_SOURCES }

\* C29: every instruction of the expanded body of a pseudo-instruction that is
\* invoked with actuals of the intended shapes is accepted by the encoder and
\* produces a word; in particular the body of `ret`, `jalr x0, x1, 0`, and the
\* `lui rd, %hi(imm)` of a 17- to 32-bit `li`.
C29_ExpandedBodiesEncode ==
    enc_result # NoResult =>
        /\ Instruction(enc_mnemonic, enc_operands) \in ExpandedPseudoBodies
              => enc_result.tag = "Ok"
        /\ \A t \in ExpandedPseudoBodies :
              t.mnemonic = enc_mnemonic
                 => Encoder_new(t.mnemonic, t.operands).tag = "Ok"

\* The shift mnemonics that share opcode and funct3 with mnemonic.
ShiftSiblings(mnemonic) ==
    {m \in DOMAIN RV_ISA :
        /\ m # mnemonic
        /\ RV_ISA[m].shift # <<>>
        /\ RV_ISA[m].opcode = RV_ISA[mnemonic].opcode
        /\ RV_ISA[m].funct3 = RV_ISA[mnemonic].funct3}

\* C30: for a shift-immediate instruction the encoder accepted, every other
\* accepted shamt on the same registers gives a different word, and a shift
\* mnemonic with the same funct3 (srli / srai, srliw / sraiw, srlid / sraid)
\* gives a different word on the same operands.
C30_ShiftEncodingInjective ==
    (/\ enc_result.tag = "Ok"
     /\ RV_ISA[enc_mnemonic].shift # <<>>)
        => /\ \A shamt \in 0..127 :
                 LET other == Encoder_new(enc_mnemonic,
                                  <<enc_operands[1], enc_operands[2], ImmOp(shamt)>>)
                 IN (shamt # enc_operands[3].rv.value /\ other.tag = "Ok")
                       => other.word # enc_result.word
           /\ \A m \in ShiftSiblings(enc_mnemonic) :
                 LET sibling == Encoder_new(m, enc_operands)
                 IN sibling.tag = "Ok" => sibling.word # enc_result.word
===========================================================================
